---- MODULE Spec2Model ----
(***************************************************************************)
(* A model of pytyrant: the pure-python client of the Tokyo Tyrant binary  *)
(* protocol (src/pytyrant.py).  The frame encoders (_t0 .. _t3F), the      *)
(* transport helpers (socksend .. sockstrpair), the Command Set (class     *)
(* Tyrant) and the Container Adapter (class PyTyrant) are translated from  *)
(* the source; the server and the network are the environment.             *)
(*                                                                         *)
(* Byte strings are sequences of numbers 0..255.  One caller uses one      *)
(* connection; every operation is one action that runs the whole method:   *)
(* it encodes, sends, lets the server answer and reads the answer.         *)
(* The database configuration objects of the server-launch helper          *)
(* (src/pytyrant/ttserver.py) are a part of their own.                     *)
(***************************************************************************)
EXTENDS Integers, Sequences, FiniteSets, TLC

VARIABLES
    store,   \* server: the records, a function from the present keys to values
    cursor,  \* server: the connection's iteration cursor (keys already handed out)
    inbuf,   \* connection: response bytes that arrived and were not read yet
    peer,    \* connection: "open", or "dead" once the peer is gone
    srvin,   \* server: bytes received that do not make a whole command yet
    statextra, \* server: the text of its statistics after the record count line
    python,  \* the interpreter that runs the client: "2.6" (2.5 and 2.6 pack
             \* alike) or "2.7"
    dbopts,  \* ttserver: the dict TTDatabase.dbopts, an attribute of the class
    dbs,     \* ttserver: the database objects constructed so far
    iters,   \* caller: the generator objects that iterkeys() returned and the
             \* caller holds, each with the place its frame stands at
    otherconn, \* a second connection to the same server, with its own Tyrant
               \* object: its id, cursor, inbuf, peer, srvin and call
    call     \* what the last operation did: its name, arguments, frames, outcome

vars == <<store, cursor, inbuf, peer, srvin, statextra, python, dbopts, dbs, iters,
          otherconn, call>>

(***************************************************************************)
(* Bounds of the model.                                                    *)
(***************************************************************************)
MaxKeyLen == 1     \* keys are the byte strings over KeyBytes up to this length
MaxValLen == 2     \* values are the byte strings over ValBytes up to this length
MaxList == 2       \* longest key / argument list passed to mget and misc
MaxUnread == 0     \* an operation starts with at most this many unread bytes
MaxNetPos == 7     \* the network acts within this many bytes of the response stream
MaxSendPos == 2    \* a short write happens within this many bytes of what the
                   \* operation sends
MaxUnparsed == 0   \* an operation starts with at most this many bytes of an
                   \* incomplete command at the server
MaxKwargs == 1     \* update() is called with at most this many keyword arguments
MaxStat == 4       \* longest text of statistics after the record count line
MaxLow == 0        \* the low 32 bits of a length or number are at most this
MaxWideList == 1   \* longest list of keys or arguments whose lengths may be wide
MaxDbs == 2        \* database objects of ttserver that are alive at once
MaxYield == 3      \* a generator of iterkeys is asked for a key until it has
                   \* yielded this many

KeyBytes == {107}

RECURSIVE SeqsUpTo(_, _)
SeqsUpTo(S, n) ==
    IF n = 0 THEN {<<>>}
    ELSE LET shorter == SeqsUpTo(S, n - 1)
         IN  shorter \cup {Append(s, b) : s \in {t \in shorter : Len(t) = n - 1}, b \in S}

Keys == SeqsUpTo(KeyBytes, MaxKeyLen)

(* The values the caller writes: one of each length, binary, ending in a   *)
(* zero byte: <<>>, <<0>>, <<118, 0>>, ...                                 *)
ValOfLen(n) == [i \in 1..n |-> IF (n - i) % 2 = 0 THEN 0 ELSE 118]
Vals == {ValOfLen(n) : n \in 0..MaxValLen}
KeyLists == SeqsUpTo(Keys, MaxList)

(* Texts of statistics: tab, the line ends \\n and \\r, and the letter r. *)
TAB == 9
LF == 10
CR == 13
StatBytes == {TAB, LF, CR, 114}
StatTexts == SeqsUpTo(StatBytes, MaxStat)

(* (key, value) items; the items of a dict in its iteration order. *)
Items == {<<k, v>> : k \in Keys, v \in {x \in Vals : Len(x) <= 1}}
ItemLists == SeqsUpTo(Items, MaxList)
Dicts == {d \in ItemLists : \A i, j \in 1..Len(d) : d[i][1] = d[j][1] => i = j}
KwargDicts == {d \in Dicts : Len(d) <= MaxKwargs}

Min(a, b) == IF a < b THEN a ELSE b
Take(s, n) == SubSeq(s, 1, Min(n, Len(s)))
Drop(s, n) == SubSeq(s, Min(n, Len(s)) + 1, Len(s))

RECURSIVE Join(_)
Join(lst) == IF lst = <<>> THEN <<>> ELSE Head(lst) \o Join(Tail(lst))

(***************************************************************************)
(* Protocol constants (src/pytyrant.py 40-74).                             *)
(***************************************************************************)
MAGIC == 200

RDBMONOULOG == 1
RDBXOLCKREC == 1
RDBXOLCKGLB == 2

C == [put |-> 16, putkeep |-> 17, putcat |-> 18, putshl |-> 19, putnr |-> 24,
      out |-> 32, get |-> 48, mget |-> 49, vsiz |-> 56, iterinit |-> 80,
      iternext |-> 81, fwmkeys |-> 88, addint |-> 96, adddouble |-> 97,
      ext |-> 104, sync |-> 112, vanish |-> 113, copy |-> 114, restore |-> 115,
      setmst |-> 120, rnum |-> 128, size |-> 129, stat |-> 136, misc |-> 144]

(***************************************************************************)
(* struct.pack('>I', n) and struct.pack('>Q', n): big-endian, unsigned, no *)
(* padding.  The numbers of the model stay below 2^31, so the four high    *)
(* bytes of a 64-bit field are zero.                                       *)
(***************************************************************************)
PackI(n) == << (n \div 16777216) % 256, (n \div 65536) % 256, (n \div 256) % 256, n % 256 >>
PackQ(n) == <<0, 0, 0, 0>> \o PackI(n)
(* struct.unpack.  A value from 2^24 on is represented by 2^24: every such *)
(* value exceeds every length and count that occurs, and behaves like it.  *)
Huge == 16777216
UnpackI(b) == IF b[1] > 0 THEN Huge ELSE (b[2] * 256 + b[3]) * 256 + b[4]
UnpackQ(b) ==
    IF \E i \in 1..4 : b[i] > 0 THEN Huge ELSE UnpackI(SubSeq(b, 5, 8))

(***************************************************************************)
(* The frame encoders (src/pytyrant.py 76-133).  Each returns the list of  *)
(* chunks that socksend writes one after the other.                        *)
(***************************************************************************)
RECURSIVE LenPrefixed(_)
LenPrefixed(lst) ==
    IF lst = <<>> THEN <<>>
    ELSE <<PackI(Len(Head(lst))), Head(lst)>> \o LenPrefixed(Tail(lst))

_t0(code) == << <<MAGIC, code>> >>

_t1(code, key) == << <<MAGIC, code>> \o PackI(Len(key)), key >>

_t1FN(code, func, opts, args) ==
    << <<MAGIC, code>> \o PackI(Len(func)) \o PackI(opts) \o PackI(Len(args)), func >>
        \o LenPrefixed(args)

_t1R(code, key, msec) == << <<MAGIC, code>> \o PackI(Len(key)) \o PackQ(msec), key >>

_t1M(code, key, count) == << <<MAGIC, code>> \o PackI(Len(key)) \o PackI(count), key >>

_tN(code, klst) == << <<MAGIC, code>> \o PackI(Len(klst)) >> \o LenPrefixed(klst)

(* _t2 with the two length fields in the wrong order. *)
_t2_LengthsSwapped(code, key, value) ==
    << <<MAGIC, code>> \o PackI(Len(value)) \o PackI(Len(key)), key, value >>

_t2(code, key, value) ==
    << <<MAGIC, code>> \o PackI(Len(key)) \o PackI(Len(value)), key, value >>

_t2W(code, key, value, width) ==
    << <<MAGIC, code>> \o PackI(Len(key)) \o PackI(Len(value)) \o PackI(width), key, value >>

_t3F(code, func, opts, key, value) ==
    << <<MAGIC, code>> \o PackI(Len(func)) \o PackI(opts) \o PackI(Len(key)) \o PackI(Len(value)),
       func, key, value >>

(***************************************************************************)
(* The environment: the server.  It reads a command off the bytes it       *)
(* receives by the layouts of the protocol, applies it to its records and  *)
(* answers with a status byte and the command's payload.                   *)
(***************************************************************************)
ESUCCESS == 0
EKEEP == 6         \* AlreadyExists: putkeep on a present key
ENOREC == 7        \* NotFound: get, out, vsiz on an absent key; iternext at the end
EMISC == 9         \* any other failure the server reports

FuncPutlist == <<112, 117, 116, 108, 105, 115, 116>>
FuncOutlist == <<111, 117, 116, 108, 105, 115, 116>>
FuncGetlist == <<103, 101, 116, 108, 105, 115, 116>>
FuncEcho == <<101>>     \* a script function of the server, for ext

NoArgOps == {C.iterinit, C.iternext, C.sync, C.vanish, C.rnum, C.size, C.stat}
KeyOps == {C.out, C.get, C.vsiz, C.copy}
KeyCountOps == {C.fwmkeys, C.setmst}
KeyValOps == {C.put, C.putkeep, C.putcat, C.putnr}
Opcodes == {C[n] : n \in DOMAIN C}

NoCmd == [st |-> "more", op |-> 0, key |-> <<>>, val |-> <<>>, num |-> 0, opts |-> 0,
          func |-> <<>>, list |-> <<>>, used |-> 0]

U32At(b, i) == UnpackI(SubSeq(b, i, i + 3))

RECURSIVE ParseList(_, _, _)
ParseList(b, pos, n) ==
    IF n = 0 THEN [ok |-> TRUE, items |-> <<>>, pos |-> pos]
    ELSE IF Len(b) < pos + 3 THEN [ok |-> FALSE, items |-> <<>>, pos |-> pos]
    ELSE LET l == U32At(b, pos)
         IN  IF Len(b) < pos + 3 + l THEN [ok |-> FALSE, items |-> <<>>, pos |-> pos]
             ELSE LET rest == ParseList(b, pos + 4 + l, n - 1)
                  IN  [rest EXCEPT !.items = <<SubSeq(b, pos + 4, pos + 3 + l)>> \o @]

ParseCmd(b) ==
    IF Len(b) < 2 THEN NoCmd
    ELSE IF b[1] # MAGIC \/ b[2] \notin Opcodes \ {C.addint, C.adddouble}
    THEN [NoCmd EXCEPT !.st = "bad"]
    ELSE LET op == b[2]
             cmd == [NoCmd EXCEPT !.op = op]
         IN
         IF op \in NoArgOps THEN [cmd EXCEPT !.st = "ok", !.used = 2]
         ELSE IF op \in KeyOps THEN
            IF Len(b) < 6 \/ Len(b) < 6 + U32At(b, 3) THEN cmd
            ELSE LET kl == U32At(b, 3)
                 IN  [cmd EXCEPT !.st = "ok", !.key = SubSeq(b, 7, 6 + kl), !.used = 6 + kl]
         ELSE IF op \in KeyCountOps THEN
            IF Len(b) < 10 \/ Len(b) < 10 + U32At(b, 3) THEN cmd
            ELSE LET kl == U32At(b, 3)
                 IN  [cmd EXCEPT !.st = "ok", !.num = U32At(b, 7),
                                 !.key = SubSeq(b, 11, 10 + kl), !.used = 10 + kl]
         ELSE IF op = C.restore THEN
            IF Len(b) < 14 \/ Len(b) < 14 + U32At(b, 3) THEN cmd
            ELSE LET kl == U32At(b, 3)
                 IN  [cmd EXCEPT !.st = "ok", !.num = UnpackQ(SubSeq(b, 7, 14)),
                                 !.key = SubSeq(b, 15, 14 + kl), !.used = 14 + kl]
         ELSE IF op \in KeyValOps THEN
            IF Len(b) < 10 \/ Len(b) < 10 + U32At(b, 3) + U32At(b, 7) THEN cmd
            ELSE LET kl == U32At(b, 3)
                     vl == U32At(b, 7)
                 IN  [cmd EXCEPT !.st = "ok", !.key = SubSeq(b, 11, 10 + kl),
                                 !.val = SubSeq(b, 11 + kl, 10 + kl + vl),
                                 !.used = 10 + kl + vl]
         ELSE IF op = C.putshl THEN
            IF Len(b) < 14 \/ Len(b) < 14 + U32At(b, 3) + U32At(b, 7) THEN cmd
            ELSE LET kl == U32At(b, 3)
                     vl == U32At(b, 7)
                 IN  [cmd EXCEPT !.st = "ok", !.num = U32At(b, 11),
                                 !.key = SubSeq(b, 15, 14 + kl),
                                 !.val = SubSeq(b, 15 + kl, 14 + kl + vl),
                                 !.used = 14 + kl + vl]
         ELSE IF op = C.mget THEN
            IF Len(b) < 6 THEN cmd
            ELSE LET lst == ParseList(b, 7, U32At(b, 3))
                 IN  IF ~lst.ok THEN cmd
                     ELSE [cmd EXCEPT !.st = "ok", !.list = lst.items, !.used = lst.pos - 1]
         ELSE IF op = C.misc THEN
            IF Len(b) < 14 \/ Len(b) < 14 + U32At(b, 3) THEN cmd
            ELSE LET fl == U32At(b, 3)
                     lst == ParseList(b, 15 + fl, U32At(b, 11))
                 IN  IF ~lst.ok THEN cmd
                     ELSE [cmd EXCEPT !.st = "ok", !.opts = U32At(b, 7),
                                      !.func = SubSeq(b, 15, 14 + fl),
                                      !.list = lst.items, !.used = lst.pos - 1]
         ELSE \* op = C.ext
            IF Len(b) < 18 \/ Len(b) < 18 + U32At(b, 3) + U32At(b, 11) + U32At(b, 15) THEN cmd
            ELSE LET fl == U32At(b, 3)
                     kl == U32At(b, 11)
                     vl == U32At(b, 15)
                 IN  [cmd EXCEPT !.st = "ok", !.opts = U32At(b, 7),
                                 !.func = SubSeq(b, 19, 18 + fl),
                                 !.key = SubSeq(b, 19 + fl, 18 + fl + kl),
                                 !.val = SubSeq(b, 19 + fl + kl, 18 + fl + kl + vl),
                                 !.used = 18 + fl + kl + vl]

(* The server's key order: shorter keys first, then byte by byte. *)
RECURSIVE LexLeq(_, _)
LexLeq(a, b) ==
    IF a = <<>> THEN TRUE
    ELSE IF b = <<>> THEN FALSE
    ELSE IF Head(a) # Head(b) THEN Head(a) < Head(b)
    ELSE LexLeq(Tail(a), Tail(b))

KeyLeq(a, b) == Len(a) < Len(b) \/ (Len(a) = Len(b) /\ LexLeq(a, b))

RECURSIVE SortKeys(_)
SortKeys(S) ==
    IF S = {} THEN <<>>
    ELSE LET m == CHOOSE x \in S : \A y \in S : KeyLeq(x, y)
         IN  <<m>> \o SortKeys(S \ {m})

Present(st, k) == k \in DOMAIN st
StPut(st, k, v) == (k :> v) @@ st
StOut(st, k) == [x \in DOMAIN st \ {k} |-> st[x]]
IsPrefix(p, s) == Len(p) <= Len(s) /\ SubSeq(s, 1, Len(p)) = p

RECURSIVE StPutList(_, _)
StPutList(st, lst) ==
    IF Len(lst) < 2 THEN st
    ELSE StPutList(StPut(st, lst[1], lst[2]), Tail(Tail(lst)))

RECURSIVE StOutList(_, _)
StOutList(st, lst) ==
    IF lst = <<>> THEN st ELSE StOutList(StOut(st, Head(lst)), Tail(lst))

RECURSIVE Pairs(_, _)
Pairs(st, lst) ==
    IF lst = <<>> THEN <<>>
    ELSE (IF Present(st, Head(lst)) THEN << <<Head(lst), st[Head(lst)]>> >> ELSE <<>>)
         \o Pairs(st, Tail(lst))

RECURSIVE Values(_, _)
Values(st, lst) ==
    IF lst = <<>> THEN <<>>
    ELSE (IF Present(st, Head(lst)) THEN <<st[Head(lst)]>> ELSE <<>>) \o Values(st, Tail(lst))

RECURSIVE SumLen(_)
SumLen(lst) == IF lst = <<>> THEN 0 ELSE Len(Head(lst)) + SumLen(Tail(lst))

RECURSIVE RespPairs(_)
RespPairs(ps) ==
    IF ps = <<>> THEN <<>>
    ELSE PackI(Len(Head(ps)[1])) \o PackI(Len(Head(ps)[2])) \o Head(ps)[1] \o Head(ps)[2]
         \o RespPairs(Tail(ps))

RespStr(s) == PackI(Len(s)) \o s
RespList(lst) == PackI(Len(lst)) \o Join(LenPrefixed(lst))
RECURSIVE SelectPrefix(_, _)
SelectPrefix(lst, p) ==
    IF lst = <<>> THEN <<>>
    ELSE (IF IsPrefix(p, Head(lst)) THEN <<Head(lst)>> ELSE <<>>) \o SelectPrefix(Tail(lst), p)

(* The answer to one command: the records and the cursor afterwards, and   *)
(* the response bytes (none for putnr).                                    *)
Answer(st, cur, resp) == [store |-> st, cursor |-> cur, resp |-> resp]

Exec(st, cur, p) ==
    LET op == p.op
        k == p.key
        v == p.val
        order == SortKeys(DOMAIN st)
    IN
    CASE op = C.put -> Answer(StPut(st, k, v), cur, <<ESUCCESS>>)
      [] op = C.putkeep ->
            IF Present(st, k) THEN Answer(st, cur, <<EKEEP>>)
            ELSE Answer(StPut(st, k, v), cur, <<ESUCCESS>>)
      [] op = C.putcat ->
            Answer(StPut(st, k, IF Present(st, k) THEN st[k] \o v ELSE v), cur, <<ESUCCESS>>)
      [] op = C.putshl ->
            LET whole == IF Present(st, k) THEN st[k] \o v ELSE v
            IN  Answer(StPut(st, k, Drop(whole, Len(whole) - Min(p.num, Len(whole)))), cur,
                       <<ESUCCESS>>)
      [] op = C.putnr -> Answer(StPut(st, k, v), cur, <<>>)
      [] op = C.out ->
            IF Present(st, k) THEN Answer(StOut(st, k), cur, <<ESUCCESS>>)
            ELSE Answer(st, cur, <<ENOREC>>)
      [] op = C.get ->
            IF Present(st, k) THEN Answer(st, cur, <<ESUCCESS>> \o RespStr(st[k]))
            ELSE Answer(st, cur, <<ENOREC>>)
      [] op = C.mget ->
            LET ps == Pairs(st, p.list)
            IN  Answer(st, cur, <<ESUCCESS>> \o PackI(Len(ps)) \o RespPairs(ps))
      [] op = C.vsiz ->
            IF Present(st, k) THEN Answer(st, cur, <<ESUCCESS>> \o PackI(Len(st[k])))
            ELSE Answer(st, cur, <<ENOREC>>)
      [] op = C.iterinit -> Answer(st, 0, <<ESUCCESS>>)
      [] op = C.iternext ->
            IF cur < Len(order) THEN Answer(st, cur + 1, <<ESUCCESS>> \o RespStr(order[cur + 1]))
            ELSE Answer(st, cur, <<ENOREC>>)
      [] op = C.fwmkeys ->
            Answer(st, cur, <<ESUCCESS>> \o RespList(Take(SelectPrefix(order, k), p.num)))
      [] op = C.ext ->
            IF p.func = FuncEcho THEN Answer(st, cur, <<ESUCCESS>> \o RespStr(k \o v))
            ELSE Answer(st, cur, <<EMISC>>)
      [] op = C.vanish -> Answer(<<>>, cur, <<ESUCCESS>>)
      [] op \in {C.sync, C.copy, C.restore, C.setmst} -> Answer(st, cur, <<ESUCCESS>>)
      [] op = C.rnum -> Answer(st, cur, <<ESUCCESS>> \o PackQ(Len(order)))
      [] op = C.size ->
            Answer(st, cur, <<ESUCCESS>>
                            \o PackQ(SumLen(order) + SumLen([i \in 1..Len(order) |-> st[order[i]]])))
      [] op = C.stat ->
            Answer(st, cur, <<ESUCCESS>>
                            \o RespStr(<<114, 9, 48 + Len(order), 10>> \o statextra))
      [] op = C.misc ->
            IF p.func = FuncPutlist
            THEN Answer(StPutList(st, p.list), cur, <<ESUCCESS>> \o PackI(0))
            ELSE IF p.func = FuncOutlist
            THEN Answer(StOutList(st, p.list), cur, <<ESUCCESS>> \o PackI(0))
            ELSE IF p.func = FuncGetlist
            THEN Answer(st, cur, <<ESUCCESS>> \o RespList(Values(st, p.list)))
            ELSE Answer(st, cur, <<EMISC>>)

(***************************************************************************)
(* The environment: the network.  While one operation runs, the world w    *)
(* holds the server's records and cursor, the bytes on their way in both   *)
(* directions and what the network does to this operation (w.net):         *)
(*   "ok"       nothing;                                                   *)
(*   "short"    the response stream pauses after w.net.at bytes, so the    *)
(*              recv that reaches the pause returns what has arrived;      *)
(*   "eof"      the peer closes the connection after w.net.at bytes of     *)
(*              response: recv returns '' once they are read;              *)
(*   "err"      the connection breaks (reset, timeout) after w.net.at      *)
(*              bytes of response: recv raises socket.error;               *)
(*   "senderr"  the w.net.at-th socksend of the operation raises           *)
(*              socket.error;                                              *)
(*   "srvfail"  the server answers the w.net.at-th command with EMISC.     *)
(***************************************************************************)
NetOk == [kind |-> "ok", at |-> 0]

NewWorld(net) ==
    [store |-> store, cursor |-> cursor, srvin |-> srvin, buf |-> inbuf,
     alive |-> TRUE, endkind |-> IF net.kind = "err" THEN "err" ELSE "eof",
     cut |-> IF net.kind = "short" THEN net.at ELSE 0,
     quota |-> IF net.kind \in {"eof", "err"} THEN net.at ELSE -1,
     net |-> net, nsend |-> 0, ncmd |-> 0, cmd |-> NoCmd,
     sent |-> <<>>, resps |-> <<>>, rd |-> <<>>, wire |-> <<>>, ends |-> {}]

Deliver(w, resp) ==
    LET d == IF w.quota < 0 THEN Len(resp) ELSE Min(w.quota, Len(resp))
        q == IF w.quota < 0 THEN -1 ELSE w.quota - d
    IN  [w EXCEPT !.buf = @ \o Take(resp, d), !.quota = q, !.alive = (q # 0)]

(* The server answers every whole command it has received; bytes that are  *)
(* no command make it close the connection.                                *)
RECURSIVE ServerRun(_)
ServerStep(w, p) ==
    IF ~w.alive \/ p.st = "more" THEN w
    ELSE IF p.st = "bad" THEN [w EXCEPT !.alive = FALSE, !.endkind = "eof", !.srvin = <<>>]
    ELSE ServerRun([w EXCEPT !.srvin = Drop(@, p.used), !.ncmd = @ + 1, !.cmd = p])

ServerAnswer(w, a) ==
    Deliver([w EXCEPT !.store = a.store, !.cursor = a.cursor, !.resps = Append(@, a.resp),
                      !.cmd = NoCmd], a.resp)

ServerRun(w) ==
    IF w.cmd.st # "ok" THEN ServerStep(w, ParseCmd(w.srvin))
    ELSE IF w.net.kind = "srvfail" /\ w.net.at = w.ncmd /\ w.cmd.op # C.putnr
    THEN ServerRun(ServerAnswer(w, Answer(w.store, w.cursor, <<EMISC>>)))
    ELSE ServerRun(ServerAnswer(w, Exec(w.store, w.cursor, w.cmd)))

(***************************************************************************)
(* The outcome r of the statements of a method run so far: the world r.w,  *)
(* the value r.val of the last statement and the exception r.exc raised    *)
(* ("none" while none is).  A statement is skipped once an exception is    *)
(* raised: it propagates until an except clause takes it.                  *)
(***************************************************************************)
None == <<>>
Ok(w, v) == [w |-> w, exc |-> "none", code |-> 0, val |-> v]
Raise(w, e, c) == [w |-> w, exc |-> e, code |-> c, val |-> None]
Caught(r) == [r EXCEPT !.exc = "none", !.code = 0]

(***************************************************************************)
(* The transport (src/pytyrant.py 135-158).                                *)
(***************************************************************************)
(* sock.send(chunk): the connection accepts the chunk, or (a short write)  *)
(* only its first bytes, and send returns their number, which socksend     *)
(* does not look at; the accepted bytes reach the server.  The short write *)
(* of net is the one that stops after net.at of the bytes the operation    *)
(* hands to send.                                                          *)
Handed(w) == SumLen(w.sent)

Accepted(w, chunk) ==
    IF w.net.kind = "shortsend" /\ Handed(w) < w.net.at /\ w.net.at < Handed(w) + Len(chunk)
    THEN w.net.at - Handed(w)
    ELSE Len(chunk)

send(w, chunk) ==
    ServerRun([w EXCEPT !.srvin = @ \o Take(chunk, Accepted(w, chunk)),
                        !.wire = @ \o Take(chunk, Accepted(w, chunk)),
                        !.ends = @ \cup {Handed(w) + Len(chunk)},
                        !.sent[Len(w.sent)] = @ \o chunk])

RECURSIVE SendAll(_, _)
SendAll(w, lst) == IF lst = <<>> THEN w ELSE SendAll(send(w, Head(lst)), Tail(lst))

socksend(r, lst) ==
    IF r.exc # "none" THEN r
    ELSE IF ~r.w.alive \/ (r.w.net.kind = "senderr" /\ r.w.net.at = r.w.nsend + 1)
    THEN Raise([r.w EXCEPT !.alive = FALSE, !.nsend = @ + 1], "socket.error", 0)
    ELSE Ok(SendAll([r.w EXCEPT !.nsend = @ + 1, !.sent = Append(@, <<>>)], lst), None)

(* sock.recv(n): up to n of the bytes that have arrived; it blocks while   *)
(* none has.  At the end of the stream it returns '' if the peer closed,   *)
(* raises socket.error if the connection broke, and otherwise blocks until *)
(* the socket's timeout, if any, raises socket.timeout.                    *)
Avail(w) == IF w.cut > 0 THEN Min(w.cut, Len(w.buf)) ELSE Len(w.buf)

recv(r, n) ==
    IF r.exc # "none" THEN r
    ELSE IF n = 0 THEN Ok(r.w, <<>>)
    ELSE IF r.w.buf = <<>> THEN
        IF r.w.alive THEN Raise(r.w, "socket.timeout", 0)
        ELSE IF r.w.endkind = "eof" THEN Ok(r.w, <<>>)
        ELSE Raise(r.w, "socket.error", 0)
    ELSE Ok([r.w EXCEPT !.buf = Drop(@, Min(n, Avail(r.w))),
                        !.cut = IF @ > 0 THEN @ - Min(n, Avail(r.w)) ELSE 0,
                        !.rd = @ \o Take(r.w.buf, Min(n, Avail(r.w)))],
            Take(r.w.buf, Min(n, Avail(r.w))))

(* ord(s) of socksuccess: TypeError unless s is one byte. *)
CheckStatus(r) ==
    IF r.exc # "none" THEN r
    ELSE IF Len(r.val) # 1 THEN Raise(r.w, "TypeError", 0)
    ELSE IF r.val[1] # 0 THEN Raise(r.w, "TyrantError", r.val[1])
    ELSE Ok(r.w, None)

(* socksuccess that reads the status byte and does not look at it. *)
socksuccess_NoRaise(r) == recv(r, 1)

socksuccess(r) == CheckStatus(recv(r, 1))

(* struct.unpack(fmt, s)[0]: struct.error unless s has the format's size. *)
Unpack(r, n) ==
    IF r.exc # "none" THEN r
    ELSE IF Len(r.val) # n THEN Raise(r.w, "struct.error", 0)
    ELSE Ok(r.w, IF n = 4 THEN UnpackI(r.val) ELSE UnpackQ(r.val))

socklen(r) == Unpack(recv(r, 4), 4)

socklong(r) == Unpack(recv(r, 8), 8)

RecvLen(l) == IF l.exc # "none" THEN l ELSE recv(l, l.val)

sockstr(r) == RecvLen(socklen(r))

PairVal(k, v) == IF v.exc # "none" THEN v ELSE Ok(v.w, <<k.val, v.val>>)
PairV(vlen, k) == PairVal(k, IF k.exc # "none" THEN k ELSE recv(k, vlen.val))
PairK(klen, vlen) == PairV(vlen, IF vlen.exc # "none" THEN vlen ELSE recv(vlen, klen.val))
PairLens(klen) == PairK(klen, socklen(klen))

sockstrpair(r) == PairLens(socklen(r))

(***************************************************************************)
(* The Command Set: class Tyrant (src/pytyrant.py 289-470).                *)
(***************************************************************************)
(* list(...) of the generators: for i in xrange(n): yield sockstr(sock) *)
RECURSIVE ReadStrs(_, _, _)
ReadStrsNext(q, n, acc) ==
    IF q.exc # "none" THEN q ELSE ReadStrs(q, n - 1, Append(acc, q.val))

ReadStrs(r, n, acc) ==
    IF r.exc # "none" THEN r
    ELSE IF n = 0 THEN Ok(r.w, acc)
    ELSE ReadStrsNext(sockstr(r), n, acc)

RECURSIVE ReadPairs(_, _, _)
ReadPairsNext(q, n, acc) ==
    IF q.exc # "none" THEN q ELSE ReadPairs(q, n - 1, Append(acc, q.val))

ReadPairs(r, n, acc) ==
    IF r.exc # "none" THEN r
    ELSE IF n = 0 THEN Ok(r.w, acc)
    ELSE ReadPairsNext(sockstrpair(r), n, acc)

ListOfStrs(numrecs) == IF numrecs.exc # "none" THEN numrecs ELSE ReadStrs(numrecs, numrecs.val, <<>>)
ListOfPairs(numrecs) == IF numrecs.exc # "none" THEN numrecs ELSE ReadPairs(numrecs, numrecs.val, <<>>)

put(r, key, value) == socksuccess(socksend(r, _t2(C.put, key, value)))

putkeep(r, key, value) == socksuccess(socksend(r, _t2(C.putkeep, key, value)))

putcat(r, key, value) == socksuccess(socksend(r, _t2(C.putcat, key, value)))

putshl(r, key, value, width) == socksuccess(socksend(r, _t2W(C.putshl, key, value, width)))

(* putnr that waits for a status byte like put. *)
putnr_WaitsForStatus(r, key, value) == socksuccess(socksend(r, _t2(C.putnr, key, value)))

putnr(r, key, value) == socksend(r, _t2(C.putnr, key, value))

out(r, key) == socksuccess(socksend(r, _t1(C.out, key)))

get(r, key) == sockstr(socksuccess(socksend(r, _t1(C.get, key))))

mget(r, klst) == ListOfPairs(socklen(socksuccess(socksend(r, _tN(C.mget, klst)))))

vsiz(r, key) == socklen(socksuccess(socksend(r, _t1(C.vsiz, key))))

iterinit(r) == socksuccess(socksend(r, _t0(C.iterinit)))

iternext(r) == sockstr(socksuccess(socksend(r, _t0(C.iternext))))

fwmkeys(r, prefix, maxkeys) ==
    ListOfStrs(socklen(socksuccess(socksend(r, _t1M(C.fwmkeys, prefix, maxkeys)))))

ext(r, func, opts, key, value) ==
    sockstr(socksuccess(socksend(r, _t3F(C.ext, func, opts, key, value))))

sync(r) == socksuccess(socksend(r, _t0(C.sync)))

vanish(r) == socksuccess(socksend(r, _t0(C.vanish)))

copy(r, path) == socksuccess(socksend(r, _t1(C.copy, path)))

restore(r, path, msec) == socksuccess(socksend(r, _t1R(C.copy, path, msec)))

setmst(r, host, port) == socksuccess(socksend(r, _t1M(C.setmst, host, port)))

rnum(r) == socklong(socksuccess(socksend(r, _t0(C.rnum))))

size(r) == socklong(socksuccess(socksend(r, _t0(C.size))))

stat(r) == sockstr(socksuccess(socksend(r, _t0(C.stat))))

misc(r, func, opts, args) ==
    ListOfStrs(socklen(socksuccess(socksend(r, _t1FN(C.misc, func, opts, args)))))

(***************************************************************************)
(* The Container Adapter: class PyTyrant (src/pytyrant.py 160-287).        *)
(***************************************************************************)
(* try: ... except TyrantError: return False / else: return True *)
ExceptFalse(q) ==
    IF q.exc = "TyrantError" THEN Ok(q.w, FALSE)
    ELSE IF q.exc = "none" THEN Ok(q.w, TRUE)
    ELSE q

(* try: return ... except TyrantError: raise KeyError(key) *)
ExceptKeyError(q, key) ==
    IF q.exc = "TyrantError" THEN [w |-> q.w, exc |-> "KeyError", code |-> 0, val |-> key]
    ELSE q

__contains__(r, key) == ExceptFalse(vsiz(r, key))

has_key(r, key) == __contains__(r, key)

__setitem__(r, key, value) == put(r, key, value)

__getitem__(r, key) == ExceptKeyError(get(r, key), key)

(* try: putkeep except TyrantError: return self[key]; return value *)
ExceptGetitem(q, key, value) ==
    IF q.exc = "TyrantError" THEN __getitem__(Caught(q), key)
    ELSE IF q.exc = "none" THEN Ok(q.w, value)
    ELSE q

setdefault(r, key, value) == ExceptGetitem(putkeep(r, key, value), key, value)

(* A delete that swallows the server's refusal instead of raising KeyError. *)
__delitem___Silent(r, key) == ExceptFalse(out(r, key))

__delitem__(r, key) == ExceptKeyError(out(r, key), key)

(* The generator of iterkeys, run to its end:                              *)
(*   try: while True: yield iternext()  except TyrantError: pass           *)
RECURSIVE IterLoop(_, _)
IterYield(q, acc) ==
    IF q.exc = "none" THEN IterLoop(q, Append(acc, q.val))
    ELSE IF q.exc = "TyrantError" THEN Ok(q.w, acc)
    ELSE q

IterLoop(r, acc) == IterYield(iternext(r), acc)

(* self.t.iterinit() stands before the try: its errors are not caught. *)
IterStart(q) == IF q.exc # "none" THEN q ELSE IterLoop(q, <<>>)

iterkeys(r) == IterStart(iterinit(r))

keys(r) == iterkeys(r)

(* The generator of iterkeys as an object that is resumed key by key.  Its *)
(* frame stands                                                            *)
(*   "new"       before the first statement of the body,                   *)
(*   "yielded"   at the yield,                                             *)
(*   "finished"  after the body: it returned, or an exception left it.     *)
(* The frame has no local variable: the object holds self and nothing      *)
(* else.                                                                   *)

(* Calling iterkeys() makes the generator object and runs nothing of the  *)
(* body.                                                                   *)
GenCreate(r) == r

(* except TyrantError: pass, and the end of the body: StopIteration. *)
GenYield(q) == IF q.exc = "TyrantError" THEN Raise(q.w, "StopIteration", 0) ELSE q

(* A resumed generator that starts the iteration anew before it goes on. *)
GenResume_Restart(r) == GenYield(iternext(iterinit(r)))

(* next() at the yield: the loop goes round to self.t.iternext(). *)
GenResume(r) == GenYield(iternext(r))

(* next() of a new generator: self.t.iterinit(), outside the try, then *)
(* the loop.                                                            *)
GenBegin(q) == IF q.exc # "none" THEN q ELSE GenResume(q)

(* next() of a finished generator that runs the body again. *)
GenNext_Restartable(r, at) == GenBegin(iterinit(r))

GenNext(r, at) ==
    CASE at = "new" -> GenBegin(iterinit(r))
      [] at = "yielded" -> GenResume(r)
      [] at = "finished" -> Raise(r.w, "StopIteration", 0)

(* Where the frame stands after next() ended in q. *)
GenAfter(q) == IF q.exc = "none" THEN "yielded" ELSE "finished"

get_size(r, key) == ExceptKeyError(vsiz(r, key), key)

__len__(r) == rnum(r)

(* str.splitlines(): the lines of s, ended by \\n, \\r or \\r\\n; cur is the    *)
(* line being read.  Text after the last line end is a line when it is not *)
(* empty.                                                                  *)
RECURSIVE splitlines(_, _, _)
splitlines(s, cur, acc) ==
    IF s = <<>> THEN (IF cur = <<>> THEN acc ELSE Append(acc, cur))
    ELSE IF Head(s) = CR /\ Len(s) >= 2 /\ s[2] = LF
         THEN splitlines(Tail(Tail(s)), <<>>, Append(acc, cur))
    ELSE IF Head(s) \in {CR, LF} THEN splitlines(Tail(s), <<>>, Append(acc, cur))
    ELSE splitlines(Tail(s), Append(cur, Head(s)), acc)

(* l.split('\\t', 1): one part when l has no tab, else the text before the  *)
(* first tab and the text after it.                                        *)
RECURSIVE split1(_, _)
split1(l, before) ==
    IF l = <<>> THEN <<before>>
    ELSE IF Head(l) = TAB THEN <<before, Tail(l)>>
    ELSE split1(Tail(l), Append(before, Head(l)))

(* (l.split('\\t', 1) for l in lines if l) *)
RECURSIVE SplitEach(_)
SplitEach(lines) ==
    IF lines = <<>> THEN <<>>
    ELSE IF Head(lines) = <<>> THEN SplitEach(Tail(lines))
    ELSE <<split1(Head(lines), <<>>)>> \o SplitEach(Tail(lines))

(* dict(seq): every element must have two parts; a later element replaces *)
(* an earlier one with the same key.                                       *)
LastWith(seq, k) == CHOOSE i \in 1..Len(seq) :
                        seq[i][1] = k /\ \A j \in (i + 1)..Len(seq) : seq[j][1] # k
dict(seq) == [k \in {seq[i][1] : i \in 1..Len(seq)} |-> seq[LastWith(seq, k)][2]]

DictOrError(q, seq) ==
    IF \E i \in 1..Len(seq) : Len(seq[i]) # 2 THEN Raise(q.w, "ValueError", 0)
    ELSE Ok(q.w, dict(seq))

ParseStats(q) ==
    IF q.exc # "none" THEN q ELSE DictOrError(q, SplitEach(splitlines(q.val, <<>>, <<>>)))

get_stats(r) == ParseStats(stat(r))

(* prefix_keys(prefix, maxkeys=None):                                     *)
(*   if maxkeys is None: maxkeys = len(self)                               *)
(*   return self.t.fwmkeys(prefix, maxkeys)                                *)
NoMax == [given |-> FALSE, n |-> 0]
MaxOf(n) == [given |-> TRUE, n |-> n]

DefaultMax(r, maxkeys) ==
    IF r.exc # "none" THEN r
    ELSE IF ~maxkeys.given THEN __len__(r)
    ELSE Ok(r.w, maxkeys.n)

FwmkeysWith(q, prefix) == IF q.exc # "none" THEN q ELSE fwmkeys(q, prefix, q.val)

prefix_keys(r, prefix, maxkeys) == FwmkeysWith(DefaultMax(r, maxkeys), prefix)

(* opts = (no_update_log and RDBMONOULOG or 0) *)
OptsOf(no_update_log) == IF no_update_log THEN RDBMONOULOG ELSE 0

(* for k, v in items: lst.extend((k, v)) *)
RECURSIVE Extend(_, _)
Extend(lst, items) ==
    IF items = <<>> THEN lst
    ELSE Extend(lst \o <<Head(items)[1], Head(items)[2]>>, Tail(items))

(* A method without a return statement returns None. *)
ReturnNone(q) == IF q.exc # "none" THEN q ELSE Ok(q.w, None)

multi_set(r, items, no_update_log) ==
    ReturnNone(misc(r, FuncPutlist, OptsOf(no_update_log), Extend(<<>>, items)))

(* update(other=None, **kwargs).  A source that is given is a dict, an     *)
(* object with keys() or an iterable of pairs; each of the three branches  *)
(* hands its (key, value) items to multi_set.  `if kwargs:                 *)
(* self.update(kwargs)` runs update once more with the dict of the keyword *)
(* arguments as its source and no keyword arguments.                       *)
NoSource == [given |-> FALSE, items |-> <<>>]
Source(items) == [given |-> TRUE, items |-> items]

UpdateOther(r, other) ==
    IF r.exc # "none" THEN r
    ELSE IF ~other.given THEN r
    ELSE multi_set(r, other.items, FALSE)

UpdateKwargs(q, kwargs) ==
    IF q.exc # "none" THEN q
    ELSE IF kwargs = <<>> THEN q
    ELSE UpdateOther(q, Source(kwargs))

update(r, other, kwargs) == ReturnNone(UpdateKwargs(UpdateOther(r, other), kwargs))

multi_get(r, ks, no_update_log) == misc(r, FuncGetlist, OptsOf(no_update_log), ks)

(***************************************************************************)
(* The state machine.  An operation starts when the caller is not inside   *)
(* another one; its action runs the whole method and records in `call`     *)
(* what it did.  Return hands the outcome to the caller.                   *)
(***************************************************************************)
NoCall == [op |-> "none", params |-> <<>>, net |-> NetOk, pre |-> <<>>, sent |-> <<>>,
           resps |-> <<>>, rd |-> <<>>, exc |-> "none", code |-> 0, ret |-> None,
           before |-> <<>>, after |-> "none", wire |-> <<>>, spre |-> <<>>,
           phase |-> "done"]

(* The generator objects the caller holds: none at first.  `yielded` is    *)
(* the history of the keys the object has yielded.                         *)
Iterators == {1, 2}
NoIters == [g \in Iterators |-> [at |-> "none", yielded |-> <<>>]]

(* A connection that is open and has not been used. *)
NewConn(id) == [id |-> id, cursor |-> 0, inbuf |-> <<>>, peer |-> "open", srvin |-> <<>>,
                call |-> NoCall]

Init ==
    /\ store = <<>>
    /\ cursor = 0
    /\ inbuf = <<>>
    /\ peer = "open"
    /\ srvin = <<>>
    /\ statextra = <<>>
    /\ python = "2.7"
    /\ dbopts = <<>>
    /\ dbs = <<>>
    /\ iters = NoIters
    /\ otherconn = NewConn(2)
    /\ call = NoCall

Start(net) == Ok(NewWorld(net), None)

Ready ==
    /\ call.op = "none"
    /\ peer = "open"
    /\ Len(inbuf) <= MaxUnread
    /\ Len(srvin) <= MaxUnparsed

(* What the network may do to an operation whose undisturbed run is w0. *)
NetsFor(w0) ==
    LET L == SumLen(w0.resps)
    IN  {NetOk}
        \cup [kind : {"short"}, at : 1..Min(Len(inbuf) + L - 1, MaxNetPos)]
        \cup [kind : {"eof", "err"}, at : 0..Min(L - 1, MaxNetPos)]
        \cup [kind : {"senderr"}, at : 1..w0.nsend]
        \cup [kind : {"shortsend"}, at : (1..Min(SumLen(w0.sent) - 1, MaxSendPos)) \ w0.ends]
        \cup [kind : {"srvfail"}, at : {i \in 1..w0.ncmd : w0.resps[i] # <<>>}]

(* The other connection after an operation on this one that ended in the   *)
(* world w, with the cursor and the unread bytes of this connection shared *)
(* with it.                                                                *)
OtherAfter_Shared(w) == [otherconn EXCEPT !.cursor = w.cursor, !.inbuf = w.buf]

(* The other connection after an operation on this one that ended in the   *)
(* world w: as it was.  An operation works on self.sock alone, the module  *)
(* keeps no state, and the server's cursor belongs to the connection.      *)
OtherAfter(w) == otherconn

Finished(name, args, net, r) ==
    /\ store' = r.w.store
    /\ cursor' = r.w.cursor
    /\ inbuf' = r.w.buf
    /\ srvin' = r.w.srvin
    /\ peer' = IF r.w.alive THEN "open" ELSE "dead"
    /\ otherconn' = OtherAfter(r.w)
    /\ UNCHANGED <<statextra, python, dbopts, dbs>>
    /\ call' = [op |-> name, params |-> args, net |-> net, pre |-> inbuf,
                sent |-> r.w.sent, resps |-> r.w.resps, rd |-> r.w.rd,
                exc |-> r.exc, code |-> r.code, ret |-> r.val,
                before |-> store, after |-> call.after,
                wire |-> r.w.wire, spre |-> srvin, phase |-> "done"]

(* An operation that is no step of a generator. *)
Finish(name, args, net, r) ==
    /\ Finished(name, args, net, r)
    /\ UNCHANGED iters

Return ==
    /\ call.op # "none"
    /\ call.phase = "done"
    /\ call' = [NoCall EXCEPT !.after = IF call.op = "putnr" THEN "putnr" ELSE "other"]
    /\ UNCHANGED <<store, cursor, inbuf, peer, srvin, statextra, python, dbopts, dbs, iters, otherconn>>

(* Tyrant.open: a new socket, connected to the server. *)
Open ==
    /\ call.op = "none"
    /\ inbuf' = <<>>
    /\ peer' = "open"
    /\ srvin' = <<>>
    /\ cursor' = 0
    /\ call' = NoCall
    /\ iters' = NoIters
    /\ UNCHANGED <<store, statextra, python, dbopts, dbs, otherconn>>

Put ==
    /\ Ready
    /\ \E k \in Keys, v \in Vals : \E net \in NetsFor(put(Start(NetOk), k, v).w) :
                   Finish("put", <<k, v>>, net, put(Start(net), k, v))

Putkeep ==
    /\ Ready
    /\ \E k \in Keys, v \in Vals : \E net \in NetsFor(putkeep(Start(NetOk), k, v).w) :
                   Finish("putkeep", <<k, v>>, net, putkeep(Start(net), k, v))

Putcat ==
    /\ Ready
    /\ \E k \in Keys, v \in Vals :
               /\ Len(IF Present(store, k) THEN store[k] ELSE <<>>) + Len(v) <= MaxValLen
               /\ \E net \in NetsFor(putcat(Start(NetOk), k, v).w) :
                   Finish("putcat", <<k, v>>, net, putcat(Start(net), k, v))

Putshl ==
    /\ Ready
    /\ \E k \in Keys, v \in Vals, width \in 1..MaxValLen :
               \E net \in NetsFor(putshl(Start(NetOk), k, v, width).w) :
                   Finish("putshl", <<k, v, width>>, net, putshl(Start(net), k, v, width))

Putnr ==
    /\ Ready
    /\ \E k \in Keys, v \in Vals : \E net \in NetsFor(putnr(Start(NetOk), k, v).w) :
                   Finish("putnr", <<k, v>>, net, putnr(Start(net), k, v))

Out ==
    /\ Ready
    /\ \E k \in Keys : \E net \in NetsFor(out(Start(NetOk), k).w) :
                   Finish("out", <<k>>, net, out(Start(net), k))

Get ==
    /\ Ready
    /\ \E k \in Keys : \E net \in NetsFor(get(Start(NetOk), k).w) :
                   Finish("get", <<k>>, net, get(Start(net), k))

Mget ==
    /\ Ready
    /\ \E klst \in KeyLists : \E net \in NetsFor(mget(Start(NetOk), klst).w) :
                   Finish("mget", <<klst>>, net, mget(Start(net), klst))

Vsiz ==
    /\ Ready
    /\ \E k \in Keys : \E net \in NetsFor(vsiz(Start(NetOk), k).w) :
                   Finish("vsiz", <<k>>, net, vsiz(Start(net), k))

Iterinit ==
    /\ Ready
    /\ \E net \in NetsFor(iterinit(Start(NetOk)).w) :
                   Finish("iterinit", <<>>, net, iterinit(Start(net)))

Iternext ==
    /\ Ready
    /\ \E net \in NetsFor(iternext(Start(NetOk)).w) :
                   Finish("iternext", <<>>, net, iternext(Start(net)))

Fwmkeys ==
    /\ Ready
    /\ \E prefix \in Keys, maxkeys \in 0..MaxList :
               \E net \in NetsFor(fwmkeys(Start(NetOk), prefix, maxkeys).w) :
                   Finish("fwmkeys", <<prefix, maxkeys>>, net, fwmkeys(Start(net), prefix, maxkeys))

Ext ==
    /\ Ready
    /\ \E opts \in {RDBXOLCKREC, RDBXOLCKGLB}, k \in Keys, v \in Vals :
               \E net \in NetsFor(ext(Start(NetOk), FuncEcho, opts, k, v).w) :
                   Finish("ext", <<FuncEcho, opts, k, v>>, net, ext(Start(net), FuncEcho, opts, k, v))

Sync ==
    /\ Ready
    /\ \E net \in NetsFor(sync(Start(NetOk)).w) :
                   Finish("sync", <<>>, net, sync(Start(net)))

Vanish ==
    /\ Ready
    /\ \E net \in NetsFor(vanish(Start(NetOk)).w) :
                   Finish("vanish", <<>>, net, vanish(Start(net)))

Copy ==
    /\ Ready
    /\ \E path \in Keys : \E net \in NetsFor(copy(Start(NetOk), path).w) :
                   Finish("copy", <<path>>, net, copy(Start(net), path))

Restore ==
    /\ Ready
    /\ \E path \in Keys, msec \in 0..1 :
               \E net \in NetsFor(restore(Start(NetOk), path, msec).w) :
                   Finish("restore", <<path, msec>>, net, restore(Start(net), path, msec))

Setmst ==
    /\ Ready
    /\ \E host \in Keys : \E net \in NetsFor(setmst(Start(NetOk), host, 1978).w) :
                   Finish("setmst", <<host, 1978>>, net, setmst(Start(net), host, 1978))

Rnum ==
    /\ Ready
    /\ \E net \in NetsFor(rnum(Start(NetOk)).w) :
                   Finish("rnum", <<>>, net, rnum(Start(net)))

Size ==
    /\ Ready
    /\ \E net \in NetsFor(size(Start(NetOk)).w) :
                   Finish("size", <<>>, net, size(Start(net)))

Stat ==
    /\ Ready
    /\ \E net \in NetsFor(stat(Start(NetOk)).w) :
                   Finish("stat", <<>>, net, stat(Start(net)))

Misc ==
    /\ Ready
    /\ \E opts \in {0, RDBMONOULOG} :
               \/ \E args \in KeyLists, func \in {FuncOutlist, FuncGetlist} :
                     \E net \in NetsFor(misc(Start(NetOk), func, opts, args).w) :
                   Finish("misc", <<func, opts, args>>, net, misc(Start(net), func, opts, args))
               \/ \E k \in Keys, v \in Vals :
                     \E net \in NetsFor(misc(Start(NetOk), FuncPutlist, opts, <<k, v>>).w) :
                   Finish("misc", <<FuncPutlist, opts, <<k, v>>>>, net, misc(Start(net), FuncPutlist, opts, <<k, v>>))

Contains ==
    /\ Ready
    /\ \E k \in Keys : \E net \in NetsFor(__contains__(Start(NetOk), k).w) :
                   Finish("__contains__", <<k>>, net, __contains__(Start(net), k))

HasKey ==
    /\ Ready
    /\ \E k \in Keys : \E net \in NetsFor(has_key(Start(NetOk), k).w) :
                   Finish("has_key", <<k>>, net, has_key(Start(net), k))

Setitem ==
    /\ Ready
    /\ \E k \in Keys, v \in Vals : \E net \in NetsFor(__setitem__(Start(NetOk), k, v).w) :
                   Finish("__setitem__", <<k, v>>, net, __setitem__(Start(net), k, v))

Getitem ==
    /\ Ready
    /\ \E k \in Keys : \E net \in NetsFor(__getitem__(Start(NetOk), k).w) :
                   Finish("__getitem__", <<k>>, net, __getitem__(Start(net), k))

Setdefault ==
    /\ Ready
    /\ \E k \in Keys, v \in Vals : \E net \in NetsFor(setdefault(Start(NetOk), k, v).w) :
                   Finish("setdefault", <<k, v>>, net, setdefault(Start(net), k, v))

Delitem ==
    /\ Ready
    /\ \E k \in Keys : \E net \in NetsFor(__delitem__(Start(NetOk), k).w) :
                   Finish("__delitem__", <<k>>, net, __delitem__(Start(net), k))

KeysList ==
    /\ Ready
    /\ \E net \in NetsFor(keys(Start(NetOk)).w) :
                   Finish("keys", <<>>, net, keys(Start(net)))

GetSize ==
    /\ Ready
    /\ \E k \in Keys : \E net \in NetsFor(get_size(Start(NetOk), k).w) :
                   Finish("get_size", <<k>>, net, get_size(Start(net), k))

MultiGet ==
    /\ Ready
    /\ \E ks \in KeyLists, nul \in BOOLEAN :
          \E net \in NetsFor(multi_get(Start(NetOk), ks, nul).w) :
                   Finish("multi_get", <<ks, nul>>, net, multi_get(Start(net), ks, nul))

MultiSet ==
    /\ Ready
    /\ \E items \in ItemLists, nul \in BOOLEAN :
          \E net \in NetsFor(multi_set(Start(NetOk), items, nul).w) :
                   Finish("multi_set", <<items, nul>>, net, multi_set(Start(net), items, nul))

Update ==
    /\ Ready
    /\ \E other \in {NoSource} \cup {Source(d) : d \in Dicts}, kwargs \in KwargDicts :
          \E net \in NetsFor(update(Start(NetOk), other, kwargs).w) :
                   Finish("update", <<other, kwargs>>, net, update(Start(net), other, kwargs))

PrefixKeys ==
    /\ Ready
    /\ \E prefix \in Keys, maxkeys \in {NoMax} \cup {MaxOf(n) : n \in 0..MaxList} :
          \E net \in NetsFor(prefix_keys(Start(NetOk), prefix, maxkeys).w) :
                   Finish("prefix_keys", <<prefix, maxkeys>>, net,
                          prefix_keys(Start(net), prefix, maxkeys))

GetStats ==
    /\ Ready
    /\ \E net \in NetsFor(get_stats(Start(NetOk)).w) :
                   Finish("get_stats", <<>>, net, get_stats(Start(net)))

LenOf ==
    /\ Ready
    /\ \E net \in NetsFor(__len__(Start(NetOk)).w) :
                   Finish("__len__", <<>>, net, __len__(Start(net)))

Next ==
    \/ Put \/ Putkeep \/ Putcat \/ Putshl \/ Putnr \/ Out \/ Get \/ Mget \/ Vsiz
    \/ Iterinit \/ Iternext \/ Fwmkeys \/ Ext \/ Sync \/ Vanish \/ Copy \/ Restore
    \/ Setmst \/ Rnum \/ Size \/ Stat \/ Misc
    \/ Contains \/ Setitem \/ Getitem \/ Setdefault \/ Delitem \/ KeysList \/ GetSize
    \/ LenOf
    \/ HasKey
    \/ PrefixKeys
    \/ Open \/ Return

Spec == Init /\ [][Next]_vars

(* The batch operations of the adapter, on a store that single puts and    *)
(* deletes fill and empty as well.                                         *)
NextBatch ==
    \/ Setitem
    \/ Delitem
    \/ MultiGet
    \/ MultiSet
    \/ Update
    \/ Open
    \/ Return

SpecBatch == Init /\ [][NextBatch]_vars

(***************************************************************************)
(* Two callers, each with its own Tyrant object and connection, on the     *)
(* same server.  The variables cursor, inbuf, peer, srvin and call hold    *)
(* the connection of the caller that runs, otherconn the other one; the    *)
(* scheduler switches between them at any moment, also between the         *)
(* socksend of an operation and the reads of its response.                 *)
(***************************************************************************)
TwoOps == {"put", "get", "iterinit", "iternext"}
TwoVals == {<<0>>}
TwoArgs(op) ==
    CASE op = "put" -> {<<k, v>> : k \in Keys, v \in TwoVals}
      [] op = "get" -> {<<k>> : k \in Keys}
      [] OTHER -> {<<>>}

(* The socksend of put, get, iterinit and iternext (302-379). *)
SendPart(r, op, a) ==
    CASE op = "put" -> socksend(r, _t2(C.put, a[1], a[2]))
      [] op = "get" -> socksend(r, _t1(C.get, a[1]))
      [] op = "iterinit" -> socksend(r, _t0(C.iterinit))
      [] op = "iternext" -> socksend(r, _t0(C.iternext))

(* The statements after it. *)
RecvPart(r, op) ==
    CASE op \in {"put", "iterinit"} -> socksuccess(r)
      [] op \in {"get", "iternext"} -> sockstr(socksuccess(r))

SendDone(name, args, r) ==
    /\ store' = r.w.store
    /\ cursor' = r.w.cursor
    /\ inbuf' = r.w.buf
    /\ srvin' = r.w.srvin
    /\ peer' = IF r.w.alive THEN "open" ELSE "dead"
    /\ otherconn' = OtherAfter(r.w)
    /\ UNCHANGED <<statextra, python, dbopts, dbs, iters>>
    /\ call' = [NoCall EXCEPT !.op = name, !.params = args, !.pre = inbuf,
                              !.sent = r.w.sent, !.resps = r.w.resps,
                              !.before = store, !.wire = r.w.wire, !.spre = srvin,
                              !.phase = "sent"]

Send2 ==
    /\ Ready
    /\ \E op \in TwoOps : \E a \in TwoArgs(op) : SendDone(op, a, SendPart(Start(NetOk), op, a))

RecvDone(r) ==
    /\ store' = r.w.store
    /\ cursor' = r.w.cursor
    /\ inbuf' = r.w.buf
    /\ srvin' = r.w.srvin
    /\ peer' = IF r.w.alive THEN "open" ELSE "dead"
    /\ otherconn' = OtherAfter(r.w)
    /\ UNCHANGED <<statextra, python, dbopts, dbs, iters>>
    /\ call' = [call EXCEPT !.rd = r.w.rd, !.exc = r.exc, !.code = r.code, !.ret = r.val,
                            !.phase = "done"]

Recv2 ==
    /\ call.op # "none"
    /\ call.phase = "sent"
    /\ RecvDone(RecvPart(Start(NetOk), call.op))

Switch ==
    /\ otherconn' = [id |-> 3 - otherconn.id, cursor |-> cursor, inbuf |-> inbuf,
                     peer |-> peer, srvin |-> srvin, call |-> call]
    /\ cursor' = otherconn.cursor
    /\ inbuf' = otherconn.inbuf
    /\ peer' = otherconn.peer
    /\ srvin' = otherconn.srvin
    /\ call' = otherconn.call
    /\ UNCHANGED <<store, statextra, python, dbopts, dbs, iters>>

NextTwo ==
    \/ Send2
    \/ Recv2
    \/ Switch
    \/ Return

SpecTwo == Init /\ [][NextTwo]_vars

(***************************************************************************)
(* Iteration key by key: the caller holds up to two generator objects of   *)
(* the same PyTyrant and asks either for its next key, in any order.  The  *)
(* server holds any records; nothing changes them meanwhile.               *)
(***************************************************************************)
IterStores == UNION {[S -> Vals] : S \in SUBSET Keys}

InitIter ==
    /\ store \in IterStores
    /\ cursor = 0
    /\ inbuf = <<>>
    /\ peer = "open"
    /\ srvin = <<>>
    /\ statextra = <<>>
    /\ python = "2.7"
    /\ dbopts = <<>>
    /\ dbs = <<>>
    /\ iters = NoIters
    /\ otherconn = NewConn(2)
    /\ call = NoCall

(* it = c.iterkeys()  (iter(c) and c.__iter__() return the same) *)
IterKeys ==
    /\ Ready
    /\ \E g \in Iterators :
          /\ Finished("iterkeys", <<g>>, NetOk, GenCreate(Start(NetOk)))
          /\ iters' = [iters EXCEPT ![g] = [at |-> "new", yielded |-> <<>>]]

(* it.next() *)
NextKey ==
    /\ Ready
    /\ \E g \in Iterators :
          /\ iters[g].at # "none"
          /\ Len(iters[g].yielded) < MaxYield
          /\ \E net \in NetsFor(GenNext(Start(NetOk), iters[g].at).w) :
                /\ Finished("next", <<g, iters[g].at>>, net,
                            GenNext(Start(net), iters[g].at))
                /\ iters' = [iters EXCEPT
                      ![g].at = GenAfter(GenNext(Start(net), iters[g].at)),
                      ![g].yielded =
                          IF GenNext(Start(net), iters[g].at).exc = "none"
                          THEN Append(@, GenNext(Start(net), iters[g].at).val)
                          ELSE @]

NextIter ==
    \/ IterKeys
    \/ NextKey
    \/ Open
    \/ Return

SpecIter == InitIter /\ [][NextIter]_vars

(***************************************************************************)
(* Operands and numbers beyond the widths of the fields.  A number is      *)
(* top * 2^64 + mid * 2^32 + low; a byte string operand is given by its    *)
(* length, which is such a number.  The interpreters differ in what        *)
(* struct.pack does with a number outside the field: 2.7 raises            *)
(* struct.error; 2.5 and 2.6 warn (DeprecationWarning) and pack the        *)
(* number modulo 2^32 into an I field, and raise OverflowError for a Q     *)
(* field.  The other specifications pack no such number and run on 2.7.    *)
(***************************************************************************)
Pythons == {"2.6", "2.7"}

Num(top, mid, low) == [top |-> top, mid |-> mid, low |-> low]
Nums == {Num(0, m, l) : m \in 0..1, l \in 0..MaxLow} \cup {Num(1, 0, 0)}
NumLists == SeqsUpTo(Nums, MaxWideList)

(* The number is in the range of the format: I is 32 bits, Q is 64. *)
Fits(fmt, n) == n.top = 0 /\ (fmt = "Q" \/ n.mid = 0)

(* The bytes of a field whose number struct.pack accepts: of an I field *)
(* the number modulo 2^32.                                              *)
PackNum(fmt, n) == IF fmt = "Q" THEN PackI(n.mid) \o PackI(n.low) ELSE PackI(n.low)

Packed(bytes) == [exc |-> "none", bytes |-> bytes]
PackFails(fmt, py) ==
    [exc |-> IF py = "2.7" THEN "struct.error" ELSE "OverflowError", bytes |-> <<>>]

(* struct.pack of the fields <<format, number>> after the leading bytes. *)
RECURSIVE PackFields(_, _)
PackField(f, py, rest) ==
    IF rest.exc # "none" THEN rest
    ELSE IF Fits(f[1], f[2]) \/ (f[1] = "I" /\ py = "2.6")
    THEN Packed(PackNum(f[1], f[2]) \o rest.bytes)
    ELSE PackFails(f[1], py)

PackFields(fields, py) ==
    IF fields = <<>> THEN Packed(<<>>)
    ELSE PackField(Head(fields), py, PackFields(Tail(fields), py))

struct_pack(lead, fields, py) ==
    IF PackFields(fields, py).exc # "none" THEN PackFields(fields, py)
    ELSE Packed(lead \o PackFields(fields, py).bytes)

(* The operations with operands, one of each encoder, and their arguments: *)
(* a byte string by its length.  The count of a list is its length.        *)
SizedOps == {"get", "fwmkeys", "restore", "mget", "put", "putshl", "misc", "ext"}

SizedArgs(op) ==
    CASE op = "get" -> {<<k>> : k \in Nums}
      [] op = "fwmkeys" -> {<<k, n>> : k \in Nums, n \in Nums}
      [] op = "restore" -> {<<k, n>> : k \in Nums, n \in Nums}
      [] op = "mget" -> {<<l>> : l \in NumLists}
      [] op = "put" -> {<<k, v>> : k \in Nums, v \in Nums}
      [] op = "putshl" -> {<<k, v, n>> : k \in Nums, v \in Nums, n \in Nums}
      [] op = "misc" -> {<<f, o, l>> : f \in Nums, o \in Nums, l \in NumLists}
      [] op = "ext" -> {<<f, o, k, v>> : f \in Nums, o \in Nums, k \in Nums, v \in Nums}

(* The fields of the first struct.pack of the encoder, after MAGIC and code: *)
(* _t1, _t1M, _t1R (restore sends C.copy), _tN, _t2, _t2W, _t1FN, _t3F.      *)
HeaderFields(op, a) ==
    CASE op = "get" -> << <<"I", a[1]>> >>
      [] op = "fwmkeys" -> << <<"I", a[1]>>, <<"I", a[2]>> >>
      [] op = "restore" -> << <<"I", a[1]>>, <<"Q", a[2]>> >>
      [] op = "mget" -> << <<"I", Num(0, 0, Len(a[1]))>> >>
      [] op = "put" -> << <<"I", a[1]>>, <<"I", a[2]>> >>
      [] op = "putshl" -> << <<"I", a[1]>>, <<"I", a[2]>>, <<"I", a[3]>> >>
      [] op = "misc" -> << <<"I", a[1]>>, <<"I", a[2]>>, <<"I", Num(0, 0, Len(a[3]))>> >>
      [] op = "ext" -> << <<"I", a[1]>>, <<"I", a[2]>>, <<"I", a[3]>>, <<"I", a[4]>> >>

(* for k in klst / args: outlst.extend([struct.pack('>I', len(k)), k]) *)
ListOperand(op, a) ==
    CASE op = "mget" -> a[1]
      [] op = "misc" -> a[3]
      [] OTHER -> <<>>

Encoded(chunks) == [exc |-> "none", chunks |-> chunks]
EncodeFails(exc) == [exc |-> exc, chunks |-> <<>>]

RECURSIVE PackEach(_, _)
PackOne(one, rest) ==
    IF one.exc # "none" THEN EncodeFails(one.exc)
    ELSE IF rest.exc # "none" THEN rest
    ELSE Encoded(<<one.bytes>> \o rest.chunks)

PackEach(lst, py) ==
    IF lst = <<>> THEN Encoded(<<>>)
    ELSE PackOne(struct_pack(<<>>, << <<"I", Head(lst)>> >>, py), PackEach(Tail(lst), py))

(* The packed chunks of the encoder's list, in its order; the operands    *)
(* between them are not written out.  The encoder has run to its end, or   *)
(* failed, before socksend is called.                                      *)
EncodeList(header, elems) ==
    IF header.exc # "none" THEN EncodeFails(header.exc)
    ELSE IF elems.exc # "none" THEN elems
    ELSE Encoded(<<header.bytes>> \o elems.chunks)

Encode(op, a, py) ==
    EncodeList(struct_pack(<<MAGIC, IF op = "restore" THEN C.copy ELSE C[op]>>,
                           HeaderFields(op, a), py),
               PackEach(ListOperand(op, a), py))

InitSize ==
    /\ store = <<>>
    /\ cursor = 0
    /\ inbuf = <<>>
    /\ peer = "open"
    /\ srvin = <<>>
    /\ statextra = <<>>
    /\ python \in Pythons
    /\ dbopts = <<>>
    /\ dbs = <<>>
    /\ iters = NoIters
    /\ otherconn = NewConn(2)
    /\ call = NoCall

(* The encoder raised: socksend was not called. *)
SizedFailed(op, a, exc) ==
    /\ call' = [NoCall EXCEPT !.op = op, !.params = a, !.exc = exc, !.before = store]
    /\ UNCHANGED <<store, cursor, inbuf, peer, srvin, statextra, python, dbopts, dbs, iters, otherconn>>

(* The frame was sent and the operation went on.  What the server makes of *)
(* operands that are not written out here, and of a frame whose length     *)
(* fields do not describe them, is open: it holds any records afterwards,  *)
(* the operation returns or raises, the connection lives on or not.        *)
SizedSent(op, a, chunks) ==
    /\ store' \in IterStores
    /\ peer' \in {"open", "dead"}
    /\ \E exc \in {"none", "TyrantError", "socket.error"} :
          call' = [NoCall EXCEPT !.op = op, !.params = a, !.sent = chunks, !.exc = exc,
                                 !.before = store]
    /\ UNCHANGED <<cursor, inbuf, srvin, statextra, python, dbopts, dbs, iters, otherconn>>

Sized ==
    /\ Ready
    /\ \E op \in SizedOps : \E a \in SizedArgs(op) :
          IF Encode(op, a, python).exc # "none"
          THEN SizedFailed(op, a, Encode(op, a, python).exc)
          ELSE SizedSent(op, a, Encode(op, a, python).chunks)

NextSize ==
    \/ Sized
    \/ Open
    \/ Return

SpecSize == InitSize /\ [][NextSize]_vars

(***************************************************************************)
(* The server-launch helper (src/pytyrant/ttserver.py 60-223): the         *)
(* database configuration objects.  A string is the sequence of its        *)
(* characters.  dbopts is a function from option names to values; kw       *)
(* stands for the keyword arguments a constructor hands to                 *)
(* TTDatabase.__init__.                                                    *)
(***************************************************************************)
PyNone == <<"None">>
TT_FILE_MODES == {"w", "r", "c", "t", "e", "f"}
TT_OPTS == {"d", "l", "b", "t"}

(* What the caller passes: for an option None or a number, for mode None,  *)
(* a file mode or a letter that is none; a path with the extension of      *)
(* TTFixedDB or with another.                                              *)
OptArgs == {PyNone, <<"1">>}
ModeArgs == {PyNone, <<"w">>, <<"x">>}
PathArgs == {<<"a", ".", "t", "c", "f">>, <<"a", ".", "t", "c", "h">>}

(* dbpath.endswith('.' + dbpath_ext) *)
endswith(str, suffix) ==
    Len(suffix) <= Len(str) /\ SubSeq(str, Len(str) - Len(suffix) + 1, Len(str)) = suffix

(* _assert_dbpath: TTMemHashDB and TTMemBTreeDB override it with pass. *)
_assert_dbpath(cls, dbpath) ==
    cls.mem \/ endswith(dbpath, <<".">> \o cls.dbpath_ext)

TTMemHashDB == [name |-> "TTMemHashDB", mem |-> TRUE, dbpath_ext |-> <<>>]
TTMemBTreeDB == [name |-> "TTMemBTreeDB", mem |-> TRUE, dbpath_ext |-> <<>>]
TTFixedDB == [name |-> "TTFixedDB", mem |-> FALSE, dbpath_ext |-> <<"t", "c", "f">>]

(* The options at which the loop of __init__ raises ValueError: a mode     *)
(* with a letter outside TT_FILE_MODES, opts with one outside TT_OPTS.     *)
Rejected(kw) ==
    {opt \in DOMAIN kw :
        /\ kw[opt] \notin {PyNone, <<>>}
        /\ \/ opt = "mode" /\ \E i \in 1..Len(kw[opt]) : kw[opt][i] \notin TT_FILE_MODES
           \/ opt = "opts" /\ \E i \in 1..Len(kw[opt]) : kw[opt][i] \notin TT_OPTS}

(* self.dbopts[opt] = opt_val for the options in done: self.dbopts is the  *)
(* attribute of the class, no object has one of its own.                   *)
SetOpts(d, kw, done) ==
    [opt \in DOMAIN d \cup done |-> IF opt \in done THEN kw[opt] ELSE d[opt]]

(* The object: its class and its dbpath; kw keeps the keyword arguments   *)
(* it was made with, which the object itself does not.                     *)
NewDb(cls, dbpath, kw) == [cls |-> cls.name, dbpath |-> dbpath, kw |-> kw]

(* TTDatabase.__init__.  opts.iteritems() yields the options in the order  *)
(* of the dict's hashes: when one is rejected, any of the others may have  *)
(* been stored before it.                                                  *)
TTDatabase__init__(cls, dbpath, kw) ==
    IF ~_assert_dbpath(cls, dbpath) THEN UNCHANGED <<dbopts, dbs>>
    ELSE IF Rejected(kw) # {}
    THEN /\ \E done \in SUBSET (DOMAIN kw \ Rejected(kw)) : dbopts' = SetOpts(dbopts, kw, done)
         /\ UNCHANGED dbs
    ELSE /\ dbopts' = SetOpts(dbopts, kw, DOMAIN kw)
         /\ dbs' = Append(dbs, NewDb(cls, dbpath, kw))

(* opts_to_cmd: the 'k=v' of the options that are not None, as the set of  *)
(* the pairs (k, v); their order in the string is that of the dict.        *)
opts_to_cmd(db) == {<<opt, dbopts[opt]>> : opt \in {o \in DOMAIN dbopts : dbopts[o] # PyNone}}

(* to_cmd: dbpath, and '#' and the options when there is one. *)
to_cmd(db) == [arg |-> db.dbpath, opts |-> opts_to_cmd(db)]

NoClient == UNCHANGED <<store, cursor, inbuf, peer, srvin, statextra, python, iters,
                        otherconn, call>>

(* TTMemHashDB(bnum, capnum, capsiz) *)
NewTTMemHashDB ==
    /\ Len(dbs) < MaxDbs
    /\ \E bnum \in OptArgs, capnum \in OptArgs, capsiz \in OptArgs :
          TTDatabase__init__(TTMemHashDB, <<"*">>,
                             [bnum |-> bnum, capnum |-> capnum, capsiz |-> capsiz])
    /\ NoClient

(* TTMemBTreeDB(capnum, capsiz): it hands capsiz on as capsize. *)
NewTTMemBTreeDB ==
    /\ Len(dbs) < MaxDbs
    /\ \E capnum \in OptArgs, capsiz \in OptArgs :
          TTDatabase__init__(TTMemBTreeDB, <<"+">>, [capnum |-> capnum, capsize |-> capsiz])
    /\ NoClient

(* TTFixedDB(dbpath, mode, width, limsiz) *)
NewTTFixedDB ==
    /\ Len(dbs) < MaxDbs
    /\ \E dbpath \in PathArgs, mode \in ModeArgs, width \in OptArgs, limsiz \in OptArgs :
          TTDatabase__init__(TTFixedDB, dbpath,
                             [mode |-> mode, width |-> width, limsiz |-> limsiz])
    /\ NoClient

(* The caller lets go of the object it made first. *)
Forget ==
    /\ dbs # <<>>
    /\ dbs' = Tail(dbs)
    /\ UNCHANGED dbopts
    /\ NoClient

NextDb ==
    \/ NewTTMemHashDB
    \/ NewTTMemBTreeDB
    \/ NewTTFixedDB
    \/ Forget

SpecDb == Init /\ [][NextDb]_vars

(* get_stats on a server with any text of statistics. *)
InitStats ==
    /\ store = <<>>
    /\ cursor = 0
    /\ inbuf = <<>>
    /\ peer = "open"
    /\ srvin = <<>>
    /\ statextra \in StatTexts
    /\ python = "2.7"
    /\ dbopts = <<>>
    /\ dbs = <<>>
    /\ iters = NoIters
    /\ otherconn = NewConn(2)
    /\ call = NoCall

NextStats ==
    \/ GetStats
    \/ Open
    \/ Return

SpecStats == InitStats /\ [][NextStats]_vars

(***************************************************************************)
(* Vocabulary of the properties.                                           *)
(***************************************************************************)
TyrantOps == {"put", "putkeep", "putcat", "putshl", "putnr", "out", "get", "mget", "vsiz",
              "iterinit", "iternext", "fwmkeys", "ext", "sync", "vanish", "copy", "restore",
              "setmst", "rnum", "size", "stat", "misc"}

Last(s) == s[Len(s)]

(* The call returned to its caller: with a value, or with a protocol error. *)
Returned == call.exc \in {"none", "TyrantError"}

(* The network did nothing to the call but deliver. *)
Undisturbed == call.net.kind \in {"ok", "srvfail"}

(* The server served every command of the call and the connection did not *)
(* fail; the responses may have arrived in pieces.                         *)
Served == call.net.kind \in {"ok", "short"}

(* The call started on a connection with no unread bytes of an earlier    *)
(* response, and no bytes of an incomplete earlier command at the server.  *)
Clean == call.pre = <<>> /\ call.spre = <<>>

(* The connection did not fail during the call; the response may have     *)
(* arrived in pieces.                                                      *)
NoFailure == call.net.kind \in {"ok", "srvfail", "short"}

(* The opcode table of the protocol: 0x10, 0x11, ... *)
OpcodeTable ==
    [put |-> 16, putkeep |-> 17, putcat |-> 18, putshl |-> 19, putnr |-> 24, out |-> 32,
     get |-> 48, mget |-> 49, vsiz |-> 56, iterinit |-> 80, iternext |-> 81, fwmkeys |-> 88,
     ext |-> 104, sync |-> 112, vanish |-> 113, copy |-> 114, restore |-> 115,
     setmst |-> 120, rnum |-> 128, size |-> 129, stat |-> 136, misc |-> 144]

(* A big-endian unsigned field of the given width in bytes. *)
RECURSIVE BE(_, _)
BE(width, n) == IF width = 0 THEN <<>> ELSE BE(width - 1, n \div 256) \o <<n % 256>>

RECURSIVE Records(_)
Records(lst) ==
    IF lst = <<>> THEN <<>> ELSE BE(4, Len(Head(lst))) \o Head(lst) \o Records(Tail(lst))

(* The shape table: what follows magic and opcode, for an operation and its *)
(* arguments.                                                               *)
ShapeBody(op, a) ==
    CASE op \in {"iterinit", "iternext", "sync", "vanish", "rnum", "size", "stat"} -> <<>>
      [] op \in {"out", "get", "vsiz", "copy"} -> BE(4, Len(a[1])) \o a[1]
      [] op \in {"fwmkeys", "setmst"} -> BE(4, Len(a[1])) \o BE(4, a[2]) \o a[1]
      [] op = "restore" -> BE(4, Len(a[1])) \o BE(8, a[2]) \o a[1]
      [] op \in {"put", "putkeep", "putcat", "putnr"} ->
            BE(4, Len(a[1])) \o BE(4, Len(a[2])) \o a[1] \o a[2]
      [] op = "putshl" -> BE(4, Len(a[1])) \o BE(4, Len(a[2])) \o BE(4, a[3]) \o a[1] \o a[2]
      [] op = "mget" -> BE(4, Len(a[1])) \o Records(a[1])
      [] op = "misc" -> BE(4, Len(a[1])) \o BE(4, a[2]) \o BE(4, Len(a[3])) \o a[1] \o Records(a[3])
      [] op = "ext" ->
            BE(4, Len(a[1])) \o BE(4, a[2]) \o BE(4, Len(a[3])) \o BE(4, Len(a[4]))
            \o a[1] \o a[3] \o a[4]

(***************************************************************************)
(* C1.  Every frame a Command Set operation sends begins with the magic    *)
(* byte 0xC8 followed by the opcode the opcode table assigns to that       *)
(* operation.                                                              *)
(***************************************************************************)
C1_FrameOpcode ==
    call.op \in TyrantOps =>
        \A i \in 1..Len(call.sent) :
            /\ Len(call.sent[i]) >= 2
            /\ call.sent[i][1] = 200
            /\ call.sent[i][2] = OpcodeTable[call.op]

(***************************************************************************)
(* C2.  The bytes a Command Set operation sends are one frame: the magic   *)
(* byte, an opcode byte, and then exactly the fields and operands of the   *)
(* operation's row of the shape table, in its order, each length field     *)
(* the byte length of its operand and each count the number of elements.   *)
(***************************************************************************)
C2_FrameLayout ==
    (call.op \in TyrantOps /\ call.sent # <<>>) =>
        /\ Len(call.sent) = 1
        /\ Len(call.sent[1]) >= 2
        /\ call.sent[1][1] = 200
        /\ call.sent[1][2] \in {OpcodeTable[n] : n \in DOMAIN OpcodeTable}
        /\ Drop(call.sent[1], 2) = ShapeBody(call.op, call.params)

C2_Witness ==
    /\ call.op = "misc"
    /\ Len(call.params[3]) = 2
    /\ call.params[2] = 1
    /\ Len(call.sent) = 1

(***************************************************************************)
(* C3.  In every Command Set operation other than putnr, a non-zero status *)
(* byte makes the operation fail with a protocol error carrying that byte; *)
(* the operation then reads nothing more and has sent its command once.    *)
(***************************************************************************)
C3_NonZeroStatus ==
    (call.op \in TyrantOps \ {"putnr"} /\ call.rd # <<>> /\ call.rd[1] # 0) =>
        /\ call.exc = "TyrantError"
        /\ call.code = call.rd[1]
        /\ Len(call.rd) = 1
        /\ Len(call.sent) = 1

C3_Witness ==
    /\ call.op = "get"
    /\ call.resps = << <<7>> >>
    /\ call.exc = "TyrantError"
    /\ call.code = 7

(***************************************************************************)
(* C4.  Every Command Set operation other than putnr returns, normally or  *)
(* with a protocol error, only after its whole response has been read: no  *)
(* byte of it is left unread on the connection for the next command.       *)
(***************************************************************************)
C4_ResponseConsumed ==
    (call.op \in TyrantOps \ {"putnr"} /\ Returned) => inbuf = <<>>

(***************************************************************************)
(* C5.  putnr sends one key+value frame and reads nothing; it reports no   *)
(* protocol error, it leaves the response stream as it was, and the        *)
(* operation after a putnr reads its own status byte.                      *)
(***************************************************************************)
C5_PutnrNoResponse ==
    /\ call.op = "putnr" =>
          /\ call.rd = <<>>
          /\ inbuf = call.pre
          /\ call.exc \in {"none", "socket.error"}
          /\ call.exc = "none" =>
                /\ Len(call.sent) = 1
                /\ call.sent[1] = <<200, 24>> \o ShapeBody("putnr", call.params)
    /\ (call.after = "putnr" /\ call.op \notin {"none", "putnr"} /\ call.pre = <<>>
            /\ call.rd # <<>>) =>
          /\ call.resps # <<>>
          /\ call.resps[1] # <<>>
          /\ call.rd[1] = call.resps[1][1]

C5_Witness ==
    /\ call.after = "putnr"
    /\ call.op = "out"
    /\ call.net.kind = "srvfail"
    /\ call.exc = "TyrantError"
    /\ call.code = 9

(***************************************************************************)
(* C6.  keys() ends normally only when iternext failed with the            *)
(* end-of-data code: the last answer of the server is then that code, and  *)
(* any other protocol error of iternext reaches the caller.                *)
(***************************************************************************)
C6_IterationEndsAtEndOfData ==
    (call.op = "keys" /\ Undisturbed /\ call.exc = "none") => Last(call.resps) = <<7>>

(***************************************************************************)
(* C7.  c[k], del c[k] and get_size(k) raise KeyError exactly when the     *)
(* server answered NotFound, and setdefault reads the existing value only  *)
(* after putkeep was answered AlreadyExists.                               *)
(***************************************************************************)
C7_MissingKeyOnlyOnNotFound ==
    /\ (call.op \in {"__getitem__", "__delitem__", "get_size"} /\ Undisturbed) =>
            (call.exc = "KeyError" <=> call.resps = << <<7>> >>)
    /\ (call.op = "setdefault" /\ Undisturbed /\ Len(call.sent) = 2) =>
            call.resps[1] = <<6>>

(***************************************************************************)
(* C8.  An operation during which the connection fails (the peer closes    *)
(* it, it breaks, a write fails) does not return normally and raises       *)
(* neither KeyError nor a protocol error; and it sends no command twice.   *)
(***************************************************************************)
C8_TransportFailureSurfaces ==
    (call.op # "none" /\ call.net.kind \in {"eof", "err", "senderr"}) =>
        /\ call.exc \notin {"none", "KeyError", "TyrantError"}
        /\ \A i, j \in 1..Len(call.sent) : call.sent[i] = call.sent[j] => i = j

(***************************************************************************)
(* C9.  On a connection that does not fail, setdefault(k, v) returns the   *)
(* value stored under k after the call: v if k was absent, and otherwise   *)
(* the value k had, which is unchanged.                                    *)
(***************************************************************************)
C9_Setdefault ==
    (call.op = "setdefault" /\ NoFailure /\ call.exc = "none") =>
        /\ Present(store, call.params[1])
        /\ call.ret = store[call.params[1]]
        /\ store[call.params[1]] = IF Present(call.before, call.params[1])
                                 THEN call.before[call.params[1]]
                                 ELSE call.params[2]

(***************************************************************************)
(* C10.  Round trip, on a connection that does not fail: put(k, v) stores  *)
(* exactly v under k, get(k) returns exactly the value stored under k and  *)
(* vsiz(k) its length in bytes; the same through c[k] = v and c[k].        *)
(***************************************************************************)
C10_RoundTrip ==
    /\ (call.op \in {"put", "__setitem__"} /\ NoFailure /\ call.exc = "none") =>
            /\ Present(store, call.params[1])
            /\ store[call.params[1]] = call.params[2]
    /\ (call.op \in {"get", "__getitem__"} /\ NoFailure /\ call.exc = "none") =>
            /\ Present(call.before, call.params[1])
            /\ call.ret = call.before[call.params[1]]
    /\ (call.op = "vsiz" /\ NoFailure /\ call.exc = "none") =>
            /\ Present(call.before, call.params[1])
            /\ call.ret = Len(call.before[call.params[1]])

(***************************************************************************)
(* C11.  Iteration completeness: on a connection that serves, keys()       *)
(* returns the keys of the store, each exactly once, and rnum() and len()  *)
(* return their number.                                                    *)
(***************************************************************************)
C11_IterationComplete ==
    /\ (call.op = "keys" /\ Served) =>
            /\ call.exc = "none"
            /\ Len(call.ret) = Cardinality(DOMAIN call.before)
            /\ {call.ret[i] : i \in 1..Len(call.ret)} = DOMAIN call.before
    /\ (call.op \in {"rnum", "__len__"} /\ Served) =>
            /\ call.exc = "none"
            /\ call.ret = Cardinality(DOMAIN call.before)

(***************************************************************************)
(* C12  Delete semantics.  out(k) on an absent key fails with NotFound     *)
(* (del c[k] raises KeyError) and leaves every record unchanged; a         *)
(* successful out(k) removes k, keeps every other record and lowers the    *)
(* record count by exactly one; on an absent key vsiz fails with NotFound  *)
(* and `k in c` is False.                                                  *)
(***************************************************************************)
C12_DeleteSemantics ==
    /\ (call.op \in {"out", "__delitem__"} /\ Served /\ Clean) =>
            IF call.params[1] \in DOMAIN call.before
            THEN /\ call.exc = "none"
                 /\ DOMAIN store = DOMAIN call.before \ {call.params[1]}
                 /\ \A x \in DOMAIN store : store[x] = call.before[x]
                 /\ Cardinality(DOMAIN store) = Cardinality(DOMAIN call.before) - 1
            ELSE /\ call.exc = (IF call.op = "out" THEN "TyrantError" ELSE "KeyError")
                 /\ call.op = "out" => call.code = ENOREC
                 /\ store = call.before
    /\ (call.op = "vsiz" /\ Served /\ Clean /\ call.params[1] \notin DOMAIN call.before) =>
            /\ call.exc = "TyrantError"
            /\ call.code = ENOREC
    /\ (call.op = "__contains__" /\ Served /\ Clean
            /\ call.params[1] \notin DOMAIN call.before) =>
            /\ call.exc = "none"
            /\ call.ret = FALSE

(* A del c[k] that removed one of two records. *)
C12_Witness ==
    /\ call.op = "__delitem__"
    /\ call.net.kind = "ok"
    /\ call.exc = "none"
    /\ call.params[1] \in DOMAIN call.before
    /\ Cardinality(DOMAIN store) = 1

(* A del c[k] on an absent key, refused by the server. *)
C12_WitnessAbsent ==
    /\ call.op = "__delitem__"
    /\ call.net.kind = "ok"
    /\ call.exc = "KeyError"
    /\ DOMAIN call.before # {}

(***************************************************************************)
(* C13  Containment.  `k in c` and has_key(k) return True exactly when k   *)
(* is present and False exactly when it is absent; the test sends a single *)
(* vsiz command, never modifies the store and never raises for an absent   *)
(* key.                                                                    *)
(***************************************************************************)
C13_Containment ==
    (call.op \in {"__contains__", "has_key"} /\ Served /\ Clean) =>
        /\ Len(call.sent) = 1
        /\ call.sent[1][2] = C.vsiz
        /\ store = call.before
        /\ call.exc = "none"
        /\ call.ret = (call.params[1] \in DOMAIN call.before)

(***************************************************************************)
(* C14  Batch fetch.  multi_get(keys) returns one (key, value) pair per    *)
(* requested key that exists and nothing for a key that does not exist.    *)
(* The result of the code is a flat list of byte strings; the formula      *)
(* reads two consecutive items of it as a pair, and asks for as many pairs *)
(* as requested keys exist, each a requested key followed by its value.    *)
(***************************************************************************)
PresentRequested(ks, st) == {i \in 1..Len(ks) : ks[i] \in DOMAIN st}

C14_BatchFetchPairs ==
    (call.op = "multi_get" /\ call.net.kind = "ok" /\ Clean) =>
        /\ call.exc = "none"
        /\ Len(call.ret) = 2 * Cardinality(PresentRequested(call.params[1], call.before))
        /\ \A j \in 1..Cardinality(PresentRequested(call.params[1], call.before)) :
              /\ \E i \in PresentRequested(call.params[1], call.before) :
                     call.ret[2 * j - 1] = call.params[1][i]
              /\ call.ret[2 * j - 1] \in DOMAIN call.before
              /\ call.ret[2 * j] = call.before[call.ret[2 * j - 1]]

(***************************************************************************)
(* C15  Bulk update.  update(m) and multi_set(items) send one              *)
(* misc("putlist") call whose arguments are k1, v1, k2, v2, ... with each  *)
(* pair of the source once, keys and values alternating; afterwards every  *)
(* key of the source maps to the source's value and every other key is     *)
(* unchanged.  Keyword arguments are sent in a second putlist call after   *)
(* the first; update() with no source and no keyword arguments sends no    *)
(* command.                                                                *)
(***************************************************************************)
Alternating(items) ==
    [i \in 1..(2 * Len(items)) |-> items[(i + 1) \div 2][IF i % 2 = 1 THEN 1 ELSE 2]]

PutlistFrame(opts, items) ==
    <<200, 144>> \o ShapeBody("misc", <<FuncPutlist, opts, Alternating(items)>>)

(* st is what the store st0 becomes when the items are stored in order. *)
StoredOver(st, st0, items) ==
    /\ DOMAIN st = DOMAIN st0 \cup {items[i][1] : i \in 1..Len(items)}
    /\ \A k \in DOMAIN st :
          IF \E i \in 1..Len(items) : items[i][1] = k
          THEN \E i \in 1..Len(items) :
                  /\ items[i][1] = k
                  /\ st[k] = items[i][2]
                  /\ \A j \in (i + 1)..Len(items) : items[j][1] # k
          ELSE st[k] = st0[k]

C15_BulkUpdate ==
    /\ (call.op = "multi_set" /\ Served /\ Clean) =>
            /\ call.exc = "none"
            /\ call.sent = <<PutlistFrame(IF call.params[2] THEN 1 ELSE 0, call.params[1])>>
            /\ StoredOver(store, call.before, call.params[1])
    /\ (call.op = "update" /\ Served /\ Clean) =>
            /\ call.exc = "none"
            /\ call.sent =
                  (IF call.params[1].given
                   THEN <<PutlistFrame(0, call.params[1].items)>> ELSE <<>>)
                  \o (IF call.params[2] # <<>>
                      THEN <<PutlistFrame(0, call.params[2])>> ELSE <<>>)
            /\ StoredOver(store, call.before, call.params[1].items \o call.params[2])

(* The same, for calls whose responses arrive in one piece each. *)
C15_BulkUpdateInOnePiece ==
    call.net.kind = "ok" => C15_BulkUpdate

(***************************************************************************)
(* C16  prefix_keys.  Without maxKeys it sends rnum and then fwmkeys with  *)
(* maxKeys equal to the record count, and returns every key of the store   *)
(* that begins with the prefix; with maxKeys given (0 included) it sends   *)
(* no rnum, and returns at most maxKeys keys, all beginning with the       *)
(* prefix.                                                                 *)
(***************************************************************************)
BeginsWith(k, prefix) == Len(prefix) <= Len(k) /\ SubSeq(k, 1, Len(prefix)) = prefix

C16_PrefixKeys ==
    (call.op = "prefix_keys" /\ Served /\ Clean) =>
        /\ call.exc = "none"
        /\ \A i \in 1..Len(call.ret) :
              call.ret[i] \in DOMAIN call.before /\ BeginsWith(call.ret[i], call.params[1])
        /\ \A i, j \in 1..Len(call.ret) : call.ret[i] = call.ret[j] => i = j
        /\ IF call.params[2].given
           THEN /\ call.sent = <<<<200, 88>> \o
                        ShapeBody("fwmkeys", <<call.params[1], call.params[2].n>>)>>
                /\ Len(call.ret) <= call.params[2].n
           ELSE /\ call.sent = << <<200, 128>>,
                                  <<200, 88>> \o ShapeBody("fwmkeys",
                                      <<call.params[1], Cardinality(DOMAIN call.before)>>) >>
                /\ {call.ret[i] : i \in 1..Len(call.ret)} =
                      {k \in DOMAIN call.before : BeginsWith(k, call.params[1])}

(* The same, for calls whose responses arrive in one piece each. *)
C16_PrefixKeysInOnePiece ==
    call.net.kind = "ok" => C16_PrefixKeys

(***************************************************************************)
(* C17  get_stats.  The result maps, for every non-empty line of the       *)
(* server's text of statistics, the text before the line's first tab to    *)
(* everything after that tab; blank lines give no entry, and get_stats     *)
(* does not fail on a text whose non-empty lines all have a tab.  Lines    *)
(* are what the newline separates.  A key that several lines carry has     *)
(* one entry, with the value of the last of them.                          *)
(***************************************************************************)
RECURSIVE LinesOf(_, _, _)
LinesOf(s, cur, acc) ==
    IF s = <<>> THEN Append(acc, cur)
    ELSE IF Head(s) = LF THEN LinesOf(Tail(s), <<>>, Append(acc, cur))
    ELSE LinesOf(Tail(s), Append(cur, Head(s)), acc)

HasTab(l) == \E i \in 1..Len(l) : l[i] = TAB
FirstTab(l) == CHOOSE i \in 1..Len(l) : l[i] = TAB /\ \A j \in 1..(i - 1) : l[j] # TAB
KeyOf(l) == SubSeq(l, 1, FirstTab(l) - 1)
ValueOf(l) == SubSeq(l, FirstTab(l) + 1, Len(l))

(* The text of statistics in the server's response to stat. *)
StatText == Drop(call.resps[1], 5)

StatLines == LET ls == LinesOf(StatText, <<>>, <<>>)
             IN  {i \in 1..Len(ls) : ls[i] # <<>>}
StatLine(i) == LinesOf(StatText, <<>>, <<>>)[i]

C17_GetStats ==
    (/\ call.op = "get_stats"
     /\ call.net.kind = "ok"
     /\ Clean
     /\ \A i \in StatLines : HasTab(StatLine(i))) =>
        /\ call.exc = "none"
        /\ DOMAIN call.ret = {KeyOf(StatLine(i)) : i \in StatLines}
        /\ \A i \in StatLines :
              (\A j \in StatLines : j > i => KeyOf(StatLine(j)) # KeyOf(StatLine(i)))
                  => call.ret[KeyOf(StatLine(i))] = ValueOf(StatLine(i))

(* The same, for texts without a carriage return. *)
C17_GetStatsNoCR ==
    (call.op = "get_stats" /\ \A i \in 1..Len(statextra) : statextra[i] # CR) => C17_GetStats

(***************************************************************************)
(* C19  readExact.  A read of n bytes that succeeds returns exactly n      *)
(* bytes, also when the connection delivers the data in several pieces: a  *)
(* record an operation returns has the length its length field announced,  *)
(* and nothing of the response is left unread.                             *)
(***************************************************************************)
C19_ReadExact ==
    (call.op \in {"get", "iternext", "stat"} /\ call.exc = "none") =>
        /\ Len(call.rd) >= 5
        /\ SubSeq(call.rd, 2, 5) = BE(4, Len(call.ret))
        /\ inbuf = <<>>

(***************************************************************************)
(* C20  send.  Every chunk of a frame is written completely and in order:  *)
(* when an operation reports success, the bytes that went onto the         *)
(* connection are all the bytes of its frames, none missing.               *)
(***************************************************************************)
C20_SendComplete ==
    (call.op # "none" /\ call.exc = "none") => call.wire = Join(call.sent)

(***************************************************************************)
(* C18  Two connections to the same server are independent.  Under any     *)
(* interleaving of the two callers, an operation reads the response to its *)
(* own command and nothing else, a response waits unread on its own        *)
(* connection until its operation reads it, and what one caller does on    *)
(* its connection (iterinit and iternext included) changes neither the     *)
(* iteration cursor nor the unread bytes nor the pending operation of the  *)
(* other connection.                                                       *)
(***************************************************************************)
OwnResponse(c, buf) ==
    /\ (c.op = "none") => buf = <<>>
    /\ (c.op # "none" /\ c.phase = "sent") => buf = Join(c.resps)
    /\ (c.op # "none" /\ c.phase = "done") =>
            /\ c.exc \in {"none", "TyrantError"}
            /\ c.rd = Join(c.resps)
            /\ buf = <<>>

OtherUntouched == otherconn'.id = otherconn.id => otherconn' = otherconn

IternextFrame == <<MAGIC, C.iternext>>
IterinitFrame == <<MAGIC, C.iterinit>>

(* The server's response to iternext with the cursor at cur. *)
AtCursor(st, cur) ==
    IF cur < Cardinality(DOMAIN st)
    THEN <<ESUCCESS>> \o BE(4, Len(SortKeys(DOMAIN st)[cur + 1])) \o SortKeys(DOMAIN st)[cur + 1]
    ELSE <<ENOREC>>

ResumedNext(c) == c.op = "next" /\ c.params[2] = "yielded"

ResumedSendsIternext ==
    (ResumedNext(call) /\ Served) => call.sent = <<IternextFrame>>

ResumedReadsSharedCursor ==
    (ResumedNext(call') /\ call'.net.kind \in {"ok", "short"} /\ call'.pre = <<>>
                        /\ call'.spre = <<>>) =>
        /\ call'.resps = <<AtCursor(store, cursor)>>
        /\ cursor' = IF cursor < Cardinality(DOMAIN store) THEN cursor + 1 ELSE cursor
        /\ call'.net.kind = "ok" =>
              IF cursor < Cardinality(DOMAIN store)
              THEN /\ call'.exc = "none"
                   /\ call'.ret = SortKeys(DOMAIN store)[cursor + 1]
              ELSE call'.exc = "StopIteration"

C21_SharedCursor == []ResumedSendsIternext /\ [][ResumedReadsSharedCursor]_vars

(* The first generator yielded two keys, the second was started and        *)
(* yielded one, and the first then yielded its second key again.           *)
C21_Witness ==
    /\ call.op = "next" /\ call.params[1] = 1 /\ call.params[2] = "yielded"
    /\ call.net.kind = "ok" /\ call.exc = "none"
    /\ iters[2].at = "yielded" /\ Len(iters[2].yielded) = 1
    /\ Len(iters[1].yielded) = 3
    /\ iters[1].yielded[3] = iters[1].yielded[2]
    /\ iters[1].yielded[1] # iters[1].yielded[2]

(* The first generator ended after one key of two, the second having      *)
(* taken the other.                                                        *)
C21_WitnessEndsEarly ==
    /\ call.op = "next" /\ call.params[1] = 1 /\ call.params[2] = "yielded"
    /\ call.net.kind = "ok" /\ call.exc = "StopIteration"
    /\ Len(iters[1].yielded) = 1
    /\ Len(iters[2].yielded) = 2
    /\ Cardinality(DOMAIN store) = 2

(***************************************************************************)
(* C22  The key iteration of the adapter is lazy, single-pass and not      *)
(* restartable.  Making the generator sends nothing.  The request for the  *)
(* first key sends iterinit, once and first, and then, iterinit having     *)
(* succeeded, one iternext; every further request sends one iternext and   *)
(* nothing else; a request to a generator that has ended sends nothing and *)
(* gets StopIteration.  A generator has ended once a request to it raised. *)
(* Stated for requests whose frames the network takes whole.               *)
(***************************************************************************)
FramesTaken == call.net.kind \notin {"senderr", "shortsend"}

C22_LazySinglePass ==
    /\ call.op = "iterkeys" =>
          /\ call.sent = <<>> /\ call.wire = <<>> /\ call.exc = "none"
          /\ iters[call.params[1]].at = "new"
    /\ (call.op = "next" /\ call.params[2] = "new" /\ FramesTaken) =>
          /\ Len(call.sent) \in {1, 2}
          /\ call.sent[1] = IterinitFrame
          /\ Len(call.sent) = 2 => call.sent[2] = IternextFrame
          /\ ((Served /\ Clean) \/ call.exc \in {"none", "StopIteration"}) => Len(call.sent) = 2
    /\ (call.op = "next" /\ call.params[2] = "yielded" /\ FramesTaken) =>
          call.sent = <<IternextFrame>>
    /\ (call.op = "next" /\ call.params[2] = "finished") =>
          /\ call.sent = <<>> /\ call.wire = <<>>
          /\ call.exc = "StopIteration"
    /\ call.op = "next" =>
          iters[call.params[1]].at = IF call.exc = "none" THEN "yielded" ELSE "finished"

(* A generator that yielded a key and ended is asked for a key again. *)
C22_Witness ==
    /\ call.op = "next" /\ call.params[2] = "finished"
    /\ call.exc = "StopIteration"
    /\ iters[call.params[1]].yielded # <<>>

(***************************************************************************)
(* C23  Operands and numbers outside the field widths.  An operation one   *)
(* of whose byte string operands is longer than 2^32-1 bytes, or whose     *)
(* count, width, options or timestamp is outside the width of its field,   *)
(* fails with a size error and hands nothing to the connection: no length  *)
(* is written modulo 2^32.                                                 *)
(***************************************************************************)
SizeErrors == {"struct.error", "OverflowError"}

OutOfWidth(op, a) ==
    \/ \E i \in 1..Len(HeaderFields(op, a)) :
          ~Fits(HeaderFields(op, a)[i][1], HeaderFields(op, a)[i][2])
    \/ \E i \in 1..Len(ListOperand(op, a)) : ~Fits("I", ListOperand(op, a)[i])

C23_SizeError ==
    (call.op \in SizedOps /\ OutOfWidth(call.op, call.params)) =>
        /\ call.exc \in SizeErrors
        /\ call.sent = <<>>

(* The same on the interpreter that checks the range of every field. *)
C23_SizeErrorOn27 == python = "2.7" => C23_SizeError

(* A timestamp outside 64 bits fails on either interpreter. *)
C23_TimestampChecked ==
    (call.op = "restore" /\ ~Fits("Q", call.params[2])) =>
        /\ call.exc \in SizeErrors
        /\ call.sent = <<>>

(* Numbers inside the widths are packed as the byte-level encoders pack   *)
(* them.                                                                   *)
C23_InsideAsEncoders ==
    (call.op = "put" /\ ~OutOfWidth(call.op, call.params)) =>
        call.sent = <<Head(_t2(C.put, ValOfLen(call.params[1].low), ValOfLen(call.params[2].low)))>>

(***************************************************************************)
(* C24  A database configuration object carries its own options only.      *)
(* to_cmd() of every object lists the options that its constructor was     *)
(* given with a value other than None, and no others; and constructing a   *)
(* database object leaves to_cmd() of every object that exists as it was.  *)
(***************************************************************************)
Passed(db) == {<<opt, db.kw[opt]>> : opt \in {o \in DOMAIN db.kw : db.kw[o] # PyNone}}

C24_OwnOptionsOnly ==
    \A i \in 1..Len(dbs) : to_cmd(dbs[i]) = [arg |-> dbs[i].dbpath, opts |-> Passed(dbs[i])]

(* The second half by itself: a construction, failed or not, changes no    *)
(* existing object's to_cmd().                                             *)
C24_ConstructionFrame ==
    [][Len(dbs') >= Len(dbs) => \A i \in 1..Len(dbs) : to_cmd(dbs[i])' = to_cmd(dbs[i])]_vars

=============================================================================
